---- MODULE Spec2Model ----
(***************************************************************************)
(* Token-budget accounting and IP rate limiting of cfglaze, modelled as a  *)
(* state machine over the shared key-value store.  Every awaited kv call   *)
(* (get / set / del) is one atomic step; the code between two awaits is    *)
(* folded into the step that precedes it.                                  *)
(***************************************************************************)
EXTENDS Integers, Sequences, FiniteSets, TLC

(* ------------------------------------------------------------------ *)
(* Program constants                                                   *)
(* ------------------------------------------------------------------ *)
MAX_DAILY_TOKENS == 2000000
CACHE_TTL == 5
maxAttempts == 3
\* checkIPRateLimit of glaze-code: rateData.count >= 4
maxRequestsCode == 4
\* checkIPRateLimit of glaze-profile: maxRequests
maxRequests == 8
dayMs == 24 * 60 * 60 * 1000
windowMs == 24 * 60 * 60 * 1000
hourMs == 1000 * 60 * 60
\* glaze-profile POST: the fixed estimate of the pre-check
preCheckTokens == 2500
\* estimateTokenUsage: glaze-profile's outputTokens, glaze-code's prompt allowance
outputTokens == 2000
promptTokens == 1000
\* fetchUserSubmissions: at most maxSubmissions in batches of batchSize
maxSubmissions == 5000
batchSize == 1000

(* ------------------------------------------------------------------ *)
(* Bounds of the model                                                 *)
(* ------------------------------------------------------------------ *)
\* operations started in all by concurrent callers, and by callers taking turns
MaxOps == 3
MaxSeqOps == 4
MaxAmount == 2
\* calls of the rate limiter in all, and ticks of its clock
MaxRateCalls == 10
MaxRateTicks == 3
\* requests handled in all when they take turns, and when they run concurrently
MaxRequests == 2
MaxRaceRequests == 2
\* overlapping calls of the rate limiter in all
MaxLimiterRaceCalls == 9
\* calls of the rate limiter in all over a store that may throw
MaxErrCalls == 6
\* operations of an operator's session
MaxAdminOps == 3
MaxWriteOps == 2
MaxLiveOps == 2
MaxFaultRequests == 2
MaxReconRequests == 2
MaxFetchCalls == 2
MaxEnvRequests == 2
MaxPageSubmits == 3
MaxPageTicks == 3

\* Two asynchronous callers: enough for every pair of overlapping operations.
Procs == {1, 2}
\* The fire-and-forget backgroundReconciliation() of a request.
Bg == 3
AllProcs == Procs \cup {Bg}
\* Amounts handed to incrementGlobalTokensKV: nothing, or MaxAmount tokens.
Amounts == {0, MaxAmount}
\* Estimates handed to checkGlobalTokenLimit by the store-level specification.
Estimates == {MaxAmount + 1}
\* One clock tick: the snapshot's time-to-live, in milliseconds.
TickMs == CACHE_TTL * 1000
\* One tick of the rate limiter's clock: nine and a half hours.
RateTickMs == (19 * hourMs) \div 2
Clients == {"a", "b"}
\* Lengths of the formatted profile data and of the submitted code, and the
\* total_tokens a completion reports (0: the reply carries no usage).
ProfileLens == {0, 2400}
CodeLens == {4000}
Usages == {0, 2000}
\* What can be wrong with a request (at most one thing): content-length over
\* the limit, an origin that is not ours, a user-agent that is empty, a bot's,
\* or neither a bot's nor a browser's, a body that is not JSON, a filled
\* honeypot, a missing or invalid username / missing code, and, for
\* glaze-profile, no OPENAI_API_KEY in the environment.
Flaws(rt) ==
  {"none", "size", "origin", "uaEmpty", "uaBot", "uaOther", "json", "honeypot", "input"}
    \cup (IF rt = "profile" THEN {"noKey"} ELSE {})
\* Indices floor(now / windowMs) of the windows the clock can reach.
Windows == 0..((MaxRateTicks * RateTickMs) \div windowMs)

(* ------------------------------------------------------------------ *)
(* Values held by the store                                            *)
(* ------------------------------------------------------------------ *)
\* kv.get(TOKEN_KEY) yields null, a number, or a value of another type.
TNull == [type |-> "null", v |-> 0]
TBad == [type |-> "string", v |-> 0]
Num(n) == [type |-> "number", v |-> n]
\* kv.get(CACHE_KEY): absent, or {value, timestamp}.  The code reads timestamp
\* only in Date.now() - timestamp, so the snapshot carries that difference, its
\* age in milliseconds: 0 when written, growing with the clock.
NoCache == [present |-> FALSE, value |-> 0, age |-> 0]
SnapshotStale(v) == [present |-> TRUE, value |-> 0, age |-> 0]
SnapshotMut(v) == [present |-> TRUE, value |-> v + 1, age |-> 0]
Snapshot(v) == [present |-> TRUE, value |-> v, age |-> 0]

\* kv.get(`ip_rate_limit:${ip}`): absent, or {count, resetTime}; setAt is the
\* time of the last kv.set, from which the key's expiry runs.
NoRate == [present |-> FALSE, count |-> 0, resetTime |-> 0, setAt |-> 0]
RateData(c, t, at) == [present |-> TRUE, count |-> c, resetTime |-> t, setAt |-> at]

VARIABLES
  tok,      \* value under TOKEN_KEY
  cache,    \* value under CACHE_KEY
  now,      \* Date.now() of the rate limiter, milliseconds
  nodeEnv,  \* process.env.NODE_ENV
  route,    \* the route under study: "profile" | "code"
  rate,     \* glaze-code: value under ip_rate_limit:<ip>
  ipWin,    \* glaze-profile: value under ip_limit:<ip>:<window>, 0 when absent
  rlFirst,  \* history: per client, the time of its first rate-limiter call
  rlCalls,  \* history: per client, the rate-limiter calls started
  rlAllowed, \* history: per route and client, the calls allowed in the client's first window
  rlHist,   \* history: per client, the epoch windows of its calls and of its denials
  fault,    \* behaviour of the store: "none" | "mismatch" | "error" |
            \* "absent" | "garbage"
  proc,     \* per asynchronous call chain: position and locals
  ops,      \* number of operations started so far
  sum,      \* history: initial counter plus the amounts of the increments started
  overlap,  \* history: two operations were in flight at the same time
  spent,    \* history: initial counter plus the usage reported by all completions
  reqs,     \* number of requests received so far
  tokV1,    \* value under 'global_tokens_used', the key of reset-tokens
  page      \* the state of one instance of the page (Home) and its requests

\* page.tsx: the client-side gap between two requests, milliseconds.
minGapMs == 20000

\* The page after its first render: useState defaults; Date.now() is more
\* than minGapMs after the epoch. inflight counts the fetches awaited, sent
\* the fetches issued, blocked the submits refused by the gap test.
PageInit ==
  [activeTab |-> "profile", username |-> "", codeContent |-> FALSE,
   loading |-> FALSE, codeLoading |-> FALSE, lastRequestTime |-> 0,
   clock |-> minGapMs, ticks |-> 0, error |-> "", codeError |-> "",
   inflight |-> [k \in {"profile", "code"} |-> 0], sent |-> 0, blocked |-> 0]

rlVars == <<now, nodeEnv, route, rate, ipWin, rlFirst, rlCalls, rlAllowed, rlHist>>
reqVars == <<spent, reqs, tokV1>>
vars == <<tok, cache, fault, proc, ops, sum, overlap, rlVars, reqVars, page>>

(* ------------------------------------------------------------------ *)
(* Process records                                                     *)
(* ------------------------------------------------------------------ *)
Idle ==
  [pc |-> "idle", op |-> "none", stack |-> <<>>, outcome |-> "none",
   gAttempts |-> 0, gVal |-> 0, tries |-> 0, reads |-> 0, badReads |-> 0, cap |-> 0, from |-> 0, got |-> 0, count |-> 0,
   requests |-> 0, delays |-> 0, prevHours |-> -1, secret |-> "none", configured |-> FALSE, attempts |-> 0, amount |-> 0, current |-> 0,
   newTotal |-> 0, est |-> 0, used |-> 0, allowed |-> TRUE, ret |-> 0,
   expect |-> 0, writes |-> 0,
   ip |-> "a", tNow |-> 0, win |-> 0, rlCount |-> 0, rlReset |-> 0,
   idx |-> 0, inWin |-> TRUE, hours |-> 0, threw |-> FALSE,
   firstInWin |-> FALSE, deniedPrev |-> FALSE, late |-> FALSE,
   rt |-> "none", bad |-> "none", len |-> 0, pages |-> 0,
   status |-> 0, respTokens |-> 0, deniedAt |-> "none", passed |-> {},
   ext |-> {}, nComp |-> 0, incr |-> FALSE, usage |-> 0, rateOk |-> TRUE,
   preUsed |-> 0, tok0 |-> 0, tokAt |-> TNull, cacheAt |-> NoCache,
   rateAt |-> NoRate, winAt |-> 0, error |-> "", afterReset |-> FALSE]

Running(r) == r.pc \notin {"idle", "done"}
OthersRunning(p) == \E q \in AllProcs \ {p} : Running(proc[q])

\* The age test of getGlobalTokensUsed on the snapshot it read.
CacheFreshMut(c) == c.present /\ c.age <= (CACHE_TTL * 1000)
CacheFresh(c) == c.present /\ c.age < (CACHE_TTL * 1000)

\* checkGlobalTokenLimit's comparison.
OverLimitMut(currentTokens, estimatedTokens) ==
  currentTokens + estimatedTokens >= MAX_DAILY_TOKENS
OverLimitNoEstimate(currentTokens, estimatedTokens) ==
  currentTokens > MAX_DAILY_TOKENS
OverLimit(currentTokens, estimatedTokens) ==
  currentTokens + estimatedTokens > MAX_DAILY_TOKENS

\* Step 2 of the read-modify-write: the total to write.
NewTotalKept(current, tokensUsed) == current
NewTotalMut(current, tokensUsed) == tokensUsed
NewTotal(current, tokensUsed) == current + tokensUsed

\* backgroundReconciliation's test of the value it read:
\* dbValue !== null && typeof dbValue === 'number'.
RecNumericMut(dbValue) == dbValue.type = "string"
RecNumeric(dbValue) == dbValue.type # "null" /\ dbValue.type = "number"

\* glaze-code's checkIPRateLimit: !rateData || rateData.resetTime < now.
RateExpiredMut(rateData, t) == ~rateData.present
RateExpired(rateData, t) == (~rateData.present) \/ rateData.resetTime < t

\* glaze-code's checkIPRateLimit: rateData.count >= 4.
RateLimitReachedMut(count) == count > maxRequestsCode
RateLimitReached(count) == count >= maxRequestsCode

\* glaze-profile's checkIPRateLimit: current >= maxRequests.
WindowLimitReached(current) == current >= maxRequests

\* Math.ceil(a / b) for a >= 0, b > 0.
CeilDivMut(a, b) == a \div b
CeilDiv(a, b) == (a + b - 1) \div b

\* Math.floor(now / windowMs), the window of glaze-profile's key.
WindowOf(t) == t \div windowMs

\* The configured maximum of the route's rate limiter.
MaxOf(rt) == IF rt = "code" THEN maxRequestsCode ELSE maxRequests

\* Step 5 of the read-modify-write: verified === newTotal.
VerifiedMut(verified, newTotal) == TRUE
Verified(verified, newTotal) == verified = Num(newTotal)

(* ------------------------------------------------------------------ *)
(* The store's replies                                                 *)
(* ------------------------------------------------------------------ *)
\* Reply of kv.get(TOKEN_KEY): the stored value, or, for a store that always
\* answers so, no value or a value that is not a number.
Stored ==
  IF fault = "absent" THEN TNull ELSE IF fault = "garbage" THEN TBad ELSE tok

\* Replies of kv.get(TOKEN_KEY) to a read that follows this caller's own write
\* of `written`: the stored value, or, for a store whose verification reads
\* mismatch, any value other than the one written.
VerifyReadResultsMut(written) == {TNull}
VerifyReadResults(written) ==
  IF fault = "mismatch" THEN {TNull, TBad, Num(written + 1)} ELSE {Stored}

\* Whether a call of the store throws: never, or, for a store that errors, at
\* will. A call that throws has not changed the store.
KvThrows == IF fault = "error" THEN {FALSE, TRUE} ELSE {FALSE}

\* Whether a call made by backgroundReconciliation throws: as any call, or,
\* for a store that fails the reconciliation only, at will.
RThrows == IF fault = "reconError" THEN {FALSE, TRUE} ELSE KvThrows

\* What the handlers look for in the message of an error the store has thrown:
\* glaze-code's catch tests message.includes('limit').
KvMessages == {"plain", "limit"}
Thrown(throws) == IF throws THEN KvMessages ELSE {"none"}

(* ------------------------------------------------------------------ *)
(* Continuations                                                       *)
(* ------------------------------------------------------------------ *)
\* The operation is over: only its result is kept.
Finish(r, outcome, v) ==
  [r EXCEPT !.pc = "done", !.outcome = outcome, !.ret = v, !.stack = <<>>,
            !.gAttempts = 0, !.gVal = 0, !.attempts = 0, !.current = 0,
            !.newTotal = 0, !.tNow = 0, !.win = 0, !.rlCount = 0, !.rlReset = 0,
            !.pages = 0]

\* History: a direct call of getGlobalTokensUsed has read the counter key
\* once more (the reads made on behalf of another operation are not counted).
ReadNoted(r) == IF r.op = "getUsed" THEN [r EXCEPT !.reads = @ + 1] ELSE r
\* History: the read returned a value that is not a number.
BadNoted(r) == IF r.op = "getUsed" THEN [r EXCEPT !.badReads = @ + 1] ELSE r

\* The `error` of the response's body: the handler's literal, or a name for
\* a text made elsewhere (the limiter's or the budget check's message, the
\* message of a caught error); none in a body that carries a glaze.
ErrorOfMut(rt, deniedAt) ==
  IF deniedAt = "none" \/ (rt = "code" /\ deniedAt = "honeypot") THEN ""
  ELSE IF deniedAt \in {"origin", "ua"} THEN "Invalid request"
  ELSE "other"
ErrorOf(rt, deniedAt) ==
  IF deniedAt = "none" \/ (rt = "code" /\ deniedAt = "honeypot") THEN ""
  ELSE IF deniedAt = "size" THEN "Request too large"
  ELSE IF deniedAt = "rate" THEN "ipRateLimit.message"
  ELSE IF deniedAt = "origin" THEN "Invalid request origin"
  ELSE IF deniedAt = "ua"
       THEN IF rt = "profile" THEN "Invalid request" ELSE "Invalid user agent"
  ELSE IF deniedAt = "honeypot" THEN "Invalid request"
  ELSE IF deniedAt = "input"
       THEN IF rt = "profile" THEN "Username is required" ELSE "Code is required"
  ELSE IF deniedAt = "key" THEN "OpenAI API key not configured"
  ELSE IF deniedAt \in {"preBudget", "budget"} THEN "Daily token limit reached"
  ELSE IF deniedAt = "noSecret" THEN "Secret is required"
  ELSE IF deniedAt = "config" THEN "Reset secret not configured"
  ELSE IF deniedAt = "badSecret" THEN "Invalid secret"
  ELSE IF deniedAt = "error" THEN "Internal server error"
  ELSE "error.message"

\* The handler returns NextResponse.json(..., { status }).
Respond(r, status, deniedAt, tokensUsed) ==
  Finish([r EXCEPT !.status = status, !.deniedAt = deniedAt, !.respTokens = tokensUsed,
                   !.error = ErrorOf(r.rt, deniedAt)],
         "returned", 0)

Pass(r, checks) == [r EXCEPT !.passed = @ \cup checks]

\* validateRequestOrigin of either route.
OriginValidMut(rt, bad) == TRUE
OriginValid(rt, bad) ==
  IF rt = "profile" THEN nodeEnv = "development" \/ bad # "origin"
  ELSE nodeEnv # "production" \/ bad # "origin"

\* validateUserAgent of either route.
UAValid(rt, bad) ==
  IF rt = "profile"
  THEN bad # "uaEmpty" /\ (nodeEnv = "development" \/ bad \notin {"uaBot", "uaOther"})
  ELSE bad \notin {"uaEmpty", "uaBot"} /\ (nodeEnv # "production" \/ bad # "uaOther")

\* estimateTokenUsage of either route.
EstimateTokenUsage(rt, len) ==
  IF rt = "profile" THEN CeilDiv(len, 4) + outputTokens ELSE CeilDiv(len, 4) + promptTokens

\* The call of checkGlobalTokenLimit(est), returning to `mark`.
CallCheck(r, est, mark) ==
  [r EXCEPT !.pc = "G_cache", !.est = est, !.stack = <<"check", mark>> \o @]

\* The call of incrementGlobalTokensKV(tokensUsed), returning to `mark`.
CallIncrement(r, tokensUsed, mark) ==
  [r EXCEPT !.pc = "G_cache", !.amount = tokensUsed, !.attempts = 0, !.incr = TRUE,
            !.stack = <<"increment", mark>> \o @]

\* glaze-profile POST from the return of checkIPRateLimit to the pre-check.
ProfileAfterRate(r) ==
  IF ~r.allowed THEN Respond(r, 429, "rate", 0)
  ELSE IF ~OriginValid("profile", r.bad) THEN Respond(Pass(r, {"rate"}), 403, "origin", 0)
  ELSE IF ~UAValid("profile", r.bad) THEN Respond(Pass(r, {"rate", "origin"}), 403, "ua", 0)
  ELSE IF r.bad = "json" THEN Respond(Pass(r, {"rate", "origin", "ua"}), 500, "json", 0)
  ELSE IF r.bad = "honeypot"
       THEN Respond(Pass(r, {"rate", "origin", "ua"}), 400, "honeypot", 0)
  ELSE IF r.bad = "input"
       THEN Respond(Pass(r, {"rate", "origin", "ua", "honeypot"}), 400, "input", 0)
  ELSE IF r.bad = "noKey"
       THEN Respond(Pass(r, {"rate", "origin", "ua", "honeypot", "input"}), 500, "key", 0)
  ELSE CallCheck(Pass(r, {"rate", "origin", "ua", "honeypot", "input", "key"}),
                 preCheckTokens, "P_pre")

\* glaze-code POST from the return of checkIPRateLimit to generateCodeGlaze's
\* budget check.
CodeAfterRate(r) ==
  IF ~r.allowed THEN Respond(r, 429, "rate", 0)
  ELSE IF r.bad = "json" THEN Respond(Pass(r, {"rate"}), 500, "json", 0)
  ELSE IF r.bad = "input" THEN Respond(Pass(r, {"rate"}), 400, "input", 0)
  ELSE IF r.bad = "honeypot" THEN Respond(Pass(r, {"rate", "input"}), 200, "honeypot", 0)
  ELSE CallCheck(Pass(r, {"rate", "input", "honeypot"}),
                 EstimateTokenUsage("code", r.len), "C_check")

\* checkGlobalTokenLimit returns to its caller.
AfterCheck(r) ==
  IF r.stack = <<>> THEN Finish(r, "returned", 0)
  ELSE LET r1 == [r EXCEPT !.stack = Tail(@)] IN
       IF Head(r.stack) = "P_pre"
       THEN IF ~r.allowed THEN Respond([r1 EXCEPT !.preUsed = r.used], 429, "preBudget", 0)
            ELSE Pass([r1 EXCEPT !.preUsed = r.used, !.pc = "P_user"], {"preBudget"})
       ELSE IF Head(r.stack) = "P_second"
       THEN IF ~r.allowed THEN Respond(r1, 429, "budget", 0)
            ELSE Pass([r1 EXCEPT !.pc = "P_complete"], {"budget"})
       ELSE IF ~r.allowed THEN Respond([r1 EXCEPT !.preUsed = r.used], 429, "preBudget", 0)
            ELSE Pass([r1 EXCEPT !.preUsed = r.used, !.pc = "C_complete"], {"preBudget"})

\* getGlobalTokensUsed returns v to its caller.
AfterGetUsed(r, v) ==
  IF r.stack = <<>> THEN Finish([r EXCEPT !.tries = r.gAttempts], "returned", v)
  ELSE LET r1 == [r EXCEPT !.stack = Tail(@)] IN
       IF Head(r.stack) = "increment"
       THEN [r1 EXCEPT !.pc = "I_write", !.current = v,
                       !.newTotal = NewTotal(v, r.amount)]
       ELSE AfterCheck([r1 EXCEPT !.used = v, !.allowed = ~OverLimit(v, r.est)])

\* checkIPRateLimit returns { allowed } to its caller.
AfterRate(r, allowed) ==
  IF r.stack = <<>> THEN Finish([r EXCEPT !.allowed = allowed], "returned", 0)
  ELSE LET r1 == [r EXCEPT !.stack = Tail(@), !.allowed = allowed, !.rateOk = allowed] IN
       IF Head(r.stack) = "P_rate" THEN ProfileAfterRate(r1) ELSE CodeAfterRate(r1)

\* The catch blocks of getGlobalTokensUsed give up: return 0.
GGiveUpMut(r) == Finish(r, "raised", 0)
GGiveUp(r) == AfterGetUsed(r, 0)

\* The catch inside the retry loop of getGlobalTokensUsed: count the attempt,
\* then return 0 or go round the loop again.
GCatch(r) ==
  IF r.gAttempts + 1 >= maxAttempts THEN GGiveUp([r EXCEPT !.gAttempts = @ + 1])
  ELSE [r EXCEPT !.gAttempts = @ + 1, !.pc = "G_tok"]

\* The catch of checkIPRateLimit: return { allowed: true }.
RateCatchMut(r) == AfterRate([r EXCEPT !.threw = TRUE], FALSE)
RateCatch(r) == AfterRate([r EXCEPT !.threw = TRUE], TRUE)

\* incrementGlobalTokensKV returns v or throws to its caller.
\* The handlers' catch blocks answer an error thrown by the increment:
\* glaze-profile 404 if the message includes 'not found', else 500;
\* glaze-code 429 if the message includes 'limit', else 500.
RaiseStatusMut(rt, msg) == 200
RaiseStatus(rt, msg) ==
  IF rt = "profile" THEN (IF msg = "not found" THEN 404 ELSE 500)
  ELSE (IF msg = "limit" THEN 429 ELSE 500)

AfterIncrement(r, outcome, v) ==
  IF r.stack = <<>> THEN Finish([r EXCEPT !.tokAt = TNull, !.error = ""], outcome, v)
  ELSE LET r1 == [r EXCEPT !.stack = Tail(@)] IN
       IF outcome = "returned" THEN Respond(r1, 200, "none", r.amount)
       ELSE Respond(r1, RaiseStatus(r.rt, r.error),
                    IF r.error = "limit" THEN "incrementLimit" ELSE "increment", 0)

\* The verification of incrementGlobalTokensKV failed: count the attempt, and
\* retry the read-modify-write or throw (the throw passes through the inner
\* catch, which counts once more and rethrows).
IncMismatch(r) ==
  IF r.attempts + 1 >= maxAttempts
  THEN AfterIncrement([r EXCEPT !.attempts = @ + 2, !.error = "plain"], "raised", 0)
  ELSE [r EXCEPT !.attempts = @ + 1, !.pc = "G_cache", !.stack = <<"increment">> \o @]

\* The catch inside the retry loop of incrementGlobalTokensKV: count the
\* attempt, then rethrow or go round the loop again.
ICatchMut(r, msg) ==
  [r EXCEPT !.attempts = 0, !.pc = "G_cache", !.stack = <<"increment">> \o @]
ICatch(r, msg) ==
  IF r.attempts + 1 >= maxAttempts
  THEN AfterIncrement([r EXCEPT !.attempts = @ + 1, !.error = msg], "raised", 0)
  ELSE [r EXCEPT !.attempts = @ + 1, !.pc = "G_cache", !.stack = <<"increment">> \o @]

\* The catch of backgroundReconciliation: silent (history: it was entered).
RCatchMut(r) == Finish([r EXCEPT !.tokAt = TNull, !.threw = TRUE], "raised", 0)
RCatch(r) == Finish([r EXCEPT !.tokAt = TNull, !.threw = TRUE], "returned", 0)

(* ------------------------------------------------------------------ *)
(* getGlobalTokensUsed                                                 *)
(* ------------------------------------------------------------------ *)
\* kv.get(CACHE_KEY) and the age test.
GCacheGet(p) ==
  /\ proc[p].pc = "G_cache"
  /\ \E throws \in KvThrows :
       proc' = [proc EXCEPT ![p] =
         \* history: no read of TOKEN_KEY by this call yet
         LET r == [@ EXCEPT !.reads = 0, !.badReads = 0] IN
         IF throws THEN GGiveUp(r)
         ELSE IF CacheFresh(cache) THEN AfterGetUsed(r, cache.value)
         ELSE [r EXCEPT !.pc = "G_tok", !.gAttempts = 0]]
  /\ UNCHANGED <<tok, cache, fault, page, ops, sum, overlap, rlVars, reqVars>>

\* kv.get(TOKEN_KEY) at the head of the retry loop.
GTokGet(p) ==
  /\ proc[p].pc = "G_tok"
  /\ \E throws \in KvThrows :
       proc' = [proc EXCEPT ![p] =
         LET r == ReadNoted(@) IN
         IF throws THEN GCatch(r)
         ELSE IF Stored.type = "null" THEN [r EXCEPT !.pc = "G_init"]
         ELSE IF Stored.type = "number" THEN [r EXCEPT !.pc = "G_setc", !.gVal = Stored.v]
         ELSE IF r.gAttempts + 1 >= maxAttempts
              THEN [BadNoted(r) EXCEPT !.gAttempts = @ + 1, !.pc = "G_reset"]
              ELSE [BadNoted(r) EXCEPT !.gAttempts = @ + 1]]
  /\ UNCHANGED <<tok, cache, fault, page, ops, sum, overlap, rlVars, reqVars>>

\* kv.set(TOKEN_KEY, 0): the key did not exist.
GInitSet(p) ==
  /\ proc[p].pc = "G_init"
  /\ \E throws \in KvThrows :
       /\ tok' = IF throws THEN tok ELSE Num(0)
       /\ proc' = [proc EXCEPT ![p] =
            IF throws THEN GCatch(@) ELSE [@ EXCEPT !.pc = "G_verify"]]
  /\ UNCHANGED <<cache, fault, page, ops, sum, overlap, rlVars, reqVars>>

\* kv.get(TOKEN_KEY): read-after-write verification of the initialisation.
GVerifyGet(p) ==
  /\ proc[p].pc = "G_verify"
  /\ \E verified \in VerifyReadResults(0) : \E throws \in KvThrows :
       proc' = [proc EXCEPT ![p] =
         LET r == IF throws \/ verified.type \in {"number", "null"}
                  THEN ReadNoted(@) ELSE BadNoted(ReadNoted(@)) IN
         IF throws THEN GCatch(r)
         ELSE IF verified.type = "number"
         THEN [r EXCEPT !.pc = "G_setc", !.gVal = verified.v]
         ELSE IF r.gAttempts + 1 < maxAttempts
              THEN [r EXCEPT !.gAttempts = @ + 1, !.pc = "G_tok"]
              ELSE AfterGetUsed([r EXCEPT !.gAttempts = @ + 1], 0)]
  /\ UNCHANGED <<tok, cache, fault, page, ops, sum, overlap, rlVars, reqVars>>

\* kv.set(CACHE_KEY, {value, timestamp: Date.now()}) and return value.
GCacheSet(p) ==
  /\ proc[p].pc = "G_setc"
  /\ \E throws \in KvThrows :
       /\ cache' = IF throws THEN cache ELSE Snapshot(proc[p].gVal)
       /\ proc' = [proc EXCEPT ![p] =
            IF throws THEN GCatch(@) ELSE AfterGetUsed(@, @.gVal)]
  /\ UNCHANGED <<tok, fault, page, ops, sum, overlap, rlVars, reqVars>>

\* kv.set(TOKEN_KEY, 0): third read of a value that is not a number.
GResetTok(p) ==
  /\ proc[p].pc = "G_reset"
  /\ \E throws \in KvThrows :
       /\ tok' = IF throws THEN tok ELSE Num(0)
       /\ proc' = [proc EXCEPT ![p] =
            IF throws THEN GCatch(@) ELSE [@ EXCEPT !.pc = "G_resetc"]]
  /\ UNCHANGED <<cache, fault, page, ops, sum, overlap, rlVars, reqVars>>

\* kv.set(CACHE_KEY, {value: 0, ...}) and return 0.
GResetCache(p) ==
  /\ proc[p].pc = "G_resetc"
  /\ \E throws \in KvThrows :
       /\ cache' = IF throws THEN cache ELSE Snapshot(0)
       /\ proc' = [proc EXCEPT ![p] =
            IF throws THEN GCatch(@) ELSE AfterGetUsed(@, 0)]
  /\ UNCHANGED <<tok, fault, page, ops, sum, overlap, rlVars, reqVars>>

(* ------------------------------------------------------------------ *)
(* incrementGlobalTokensKV                                             *)
(* ------------------------------------------------------------------ *)
\* kv.set(TOKEN_KEY, newTotal)
IWrite(p) ==
  /\ proc[p].pc = "I_write"
  /\ \E throws \in KvThrows : \E msg \in Thrown(throws) :
       /\ tok' = IF throws THEN tok ELSE Num(proc[p].newTotal)
       /\ proc' = [proc EXCEPT ![p] =
            IF throws THEN ICatch(@, msg)
            ELSE [@ EXCEPT !.pc = "I_verify", !.writes = @ + 1]]
  /\ UNCHANGED <<cache, fault, page, ops, sum, overlap, rlVars, reqVars>>

\* kv.get(TOKEN_KEY) and the comparison with newTotal.
IVerify(p) ==
  /\ proc[p].pc = "I_verify"
  /\ \E verified \in VerifyReadResults(proc[p].newTotal) :
     \E throws \in KvThrows : \E msg \in Thrown(throws) :
       proc' = [proc EXCEPT ![p] =
         IF throws THEN ICatch(@, msg)
         ELSE IF Verified(verified, @.newTotal) THEN [@ EXCEPT !.pc = "I_setc"]
         ELSE IncMismatch(@)]
  /\ UNCHANGED <<tok, cache, fault, page, ops, sum, overlap, rlVars, reqVars>>

\* kv.set(CACHE_KEY, {value: newTotal, ...}) and return newTotal.
ICacheSet(p) ==
  /\ proc[p].pc = "I_setc"
  /\ \E throws \in KvThrows : \E msg \in Thrown(throws) :
       /\ cache' = IF throws THEN cache ELSE Snapshot(proc[p].newTotal)
       /\ proc' = [proc EXCEPT ![p] =
            IF throws THEN ICatch(@, msg)
            ELSE AfterIncrement(@, "returned", @.newTotal)]
  /\ UNCHANGED <<tok, fault, page, ops, sum, overlap, rlVars, reqVars>>

(* ------------------------------------------------------------------ *)
(* backgroundReconciliation                                            *)
(* ------------------------------------------------------------------ *)
\* kv.del(CACHE_KEY)
RDel(p) ==
  /\ proc[p].pc = "R_del"
  /\ \E throws \in RThrows :
       /\ cache' = IF throws THEN cache ELSE NoCache
       /\ proc' = [proc EXCEPT ![p] =
            IF throws THEN RCatch(@) ELSE [@ EXCEPT !.pc = "R_get"]]
  /\ UNCHANGED <<tok, fault, page, ops, sum, overlap, rlVars, reqVars>>

\* kv.get(TOKEN_KEY)
RGet(p) ==
  /\ proc[p].pc = "R_get"
  /\ \E throws \in RThrows :
       proc' = [proc EXCEPT ![p] =
         IF throws THEN RCatch(@)
         ELSE IF RecNumeric(Stored) THEN [@ EXCEPT !.pc = "R_setc", !.gVal = Stored.v]
         ELSE [@ EXCEPT !.pc = "R_set0"]]
  /\ UNCHANGED <<tok, cache, fault, page, ops, sum, overlap, rlVars, reqVars>>

\* kv.set(TOKEN_KEY, 0): the stored value is absent or not a number.
RSetTok(p) ==
  /\ proc[p].pc = "R_set0"
  /\ \E throws \in RThrows :
       /\ tok' = IF throws THEN tok ELSE Num(0)
       /\ proc' = [proc EXCEPT ![p] =
            IF throws THEN RCatch(@) ELSE [@ EXCEPT !.pc = "R_setc", !.gVal = 0]]
  /\ UNCHANGED <<cache, fault, page, ops, sum, overlap, rlVars, reqVars>>

\* kv.set(CACHE_KEY, {value, ...}) with the value read, or 0 after a reset.
RCacheSet(p) ==
  /\ proc[p].pc = "R_setc"
  /\ \E throws \in RThrows :
       /\ cache' = IF throws THEN cache ELSE Snapshot(proc[p].gVal)
       /\ proc' = [proc EXCEPT ![p] =
            IF throws THEN RCatch(@)
            ELSE Finish([@ EXCEPT !.tokAt = TNull], "returned", 0)]
  /\ UNCHANGED <<tok, fault, page, ops, sum, overlap, rlVars, reqVars>>

(* ------------------------------------------------------------------ *)
(* Environment                                                         *)
(* ------------------------------------------------------------------ *)
\* The store drops the snapshot once its expiry ({ex: CACHE_TTL}) has passed.
ExpireCache ==
  /\ cache.present
  /\ cache.age >= CACHE_TTL * 1000
  /\ cache' = NoCache
  /\ UNCHANGED <<tok, fault, page, proc, ops, sum, overlap, rlVars, reqVars>>

\* The clock advances while a snapshot is stored: the snapshot ages.
Tick ==
  /\ cache.present
  /\ cache.age < CACHE_TTL * 1000
  /\ cache' = [cache EXCEPT !.age = @ + TickMs]
  /\ UNCHANGED <<tok, fault, page, proc, ops, sum, overlap, rlVars, reqVars>>

\* A caller starts one operation of the counter store, the bound-th at most.
\* `noted` are the kinds whose call records, as history, the counter it finds.
StartKindNoting(p, bound, kinds, noted) ==
  /\ ~Running(proc[p])
  \* callers are interchangeable: the lowest free one takes the operation
  /\ \A q \in Procs : q < p => Running(proc[q])
  /\ ops < bound
  /\ ops' = ops + 1
  /\ overlap' = (overlap \/ OthersRunning(p))
  /\ \E kind \in kinds :
     \E a \in Amounts : \E e \in Estimates :
       /\ (kind # "increment") => (a = 0)
       /\ sum' = sum + a
       /\ proc' = [proc EXCEPT ![p] =
            [Idle EXCEPT !.op = kind,
               !.pc = IF kind = "reconcile" THEN "R_del" ELSE "G_cache",
               !.stack = IF kind = "increment" THEN <<"increment">>
                         ELSE IF kind = "checkBudget" THEN <<"check">> ELSE <<>>,
               !.amount = a, !.est = e, !.expect = sum + a,
               \* history: the two keys as checkGlobalTokenLimit finds them
               \* (and the counter as backgroundReconciliation or
               \* incrementGlobalTokensKV finds it)
               !.tokAt = IF kind \in noted THEN tok ELSE TNull,
               !.cacheAt = IF kind = "checkBudget" THEN cache ELSE NoCache]]
  /\ UNCHANGED <<tok, cache, fault, page, rlVars, reqVars>>

StartKind(p, bound, kinds) == StartKindNoting(p, bound, kinds, {"checkBudget"})

Start(p, bound) ==
  StartKind(p, bound, {"getUsed", "increment", "checkBudget", "reconcile"})

\* Callers that may overlap.
StartOp(p) == Start(p, MaxOps)

\* Callers that take turns: each operation completes before the next starts.
StartSeq(p) ==
  /\ ~OthersRunning(p)
  /\ StartKindNoting(p, MaxSeqOps, {"getUsed", "increment", "checkBudget", "reconcile"},
                     {"checkBudget", "reconcile"})

StoreStep(p) ==
  \/ GCacheGet(p) \/ GTokGet(p) \/ GInitSet(p) \/ GVerifyGet(p) \/ GCacheSet(p)
  \/ GResetTok(p) \/ GResetCache(p)
  \/ IWrite(p) \/ IVerify(p) \/ ICacheSet(p)
  \/ RDel(p) \/ RGet(p) \/ RSetTok(p) \/ RCacheSet(p)

(* ------------------------------------------------------------------ *)
(* checkIPRateLimit                                                    *)
(* ------------------------------------------------------------------ *)
\* History: the time of the client's first call, and whether a call that reads
\* the clock at t falls in the window that this first call opened (glaze-code:
\* the day after it; glaze-profile: the same day of the epoch).
FirstAt(c, t) == IF rlFirst[c].seen THEN rlFirst[c].at ELSE t
InFirstWindow(rt, c, t) ==
  IF rt = "code" THEN t < FirstAt(c, t) + dayMs
  ELSE WindowOf(t) = WindowOf(FirstAt(c, t))
SeenAt(c, t) == [rlFirst EXCEPT ![c] = [seen |-> TRUE, at |-> FirstAt(c, t)]]

\* History: one more call of client r.ip allowed by the limiter of route rt,
\* counted while the client's first window lasts.
Allowed(rt, r) ==
  IF r.inWin THEN [rlAllowed EXCEPT ![rt][r.ip] = @ + 1] ELSE rlAllowed

\* History: a call of client r.ip reads the store in epoch window w: whether it
\* is the client's first call of that window, and whether the client was
\* denied in the window before.
InWindow(r, w) ==
  [r EXCEPT !.firstInWin = w \notin rlHist[r.ip].wins,
            !.deniedPrev = (w - 1) \in rlHist[r.ip].denied]
\* History: the call reads the clock more than a day after the client's first
\* call.
Late(c, t) == t > FirstAt(c, t) + dayMs
Noted(c, w, denied, late) ==
  [rlHist EXCEPT ![c] = [wins |-> @.wins \cup {w},
                         denied |-> IF denied THEN @.denied \cup {w} ELSE @.denied,
                         lateSeen |-> @.lateSeen \/ late]]

\* glaze-code: kv.get(key), Date.now(), and the tests on the record.
LGet(p) ==
  /\ proc[p].pc = "L_get"
  /\ LET r == proc[p]
         rateData == rate[r.ip]
         r1 == [InWindow(r, WindowOf(now)) EXCEPT
                  !.tNow = now, !.inWin = InFirstWindow("code", r.ip, now),
                  \* the client's first call after its first window
                  !.late = Late(r.ip, now) /\ ~rlHist[r.ip].lateSeen]
     IN \E throws \in KvThrows :
          /\ proc' = [proc EXCEPT ![p] =
               IF throws THEN RateCatch(r1)
               ELSE IF RateExpired(rateData, now) THEN [r1 EXCEPT !.pc = "L_create"]
               ELSE IF RateLimitReached(rateData.count)
               THEN AfterRate([r1 EXCEPT !.hours = CeilDiv(rateData.resetTime - now, hourMs)], FALSE)
               ELSE [r1 EXCEPT !.pc = "L_incr", !.rlCount = rateData.count,
                               !.rlReset = rateData.resetTime]]
          /\ rlAllowed' = IF throws THEN Allowed("code", r1) ELSE rlAllowed
          /\ rlHist' = Noted(r.ip, WindowOf(now),
                             ~throws /\ ~RateExpired(rateData, now)
                               /\ RateLimitReached(rateData.count),
                             Late(r.ip, now))
  /\ rlFirst' = SeenAt(proc[p].ip, now)
  /\ UNCHANGED <<tok, cache, fault, page, ops, sum, overlap, now, nodeEnv, route, rate, ipWin, rlCalls, reqVars>>

\* glaze-code: kv.set(key, { count: 1, resetTime: now + dayMs }, { ex: 86400 }).
LCreate(p) ==
  /\ proc[p].pc = "L_create"
  /\ \E throws \in KvThrows :
       /\ rate' = IF throws THEN rate
                  ELSE [rate EXCEPT ![proc[p].ip] = RateData(1, proc[p].tNow + dayMs, now)]
       /\ proc' = [proc EXCEPT ![p] = IF throws THEN RateCatch(@) ELSE AfterRate(@, TRUE)]
  /\ rlAllowed' = Allowed("code", proc[p])
  /\ UNCHANGED <<tok, cache, fault, page, ops, sum, overlap, now, nodeEnv, route, ipWin, rlFirst, rlCalls, rlHist, reqVars>>

\* glaze-code: kv.set(key, { count: rateData.count + 1, resetTime }, { ex: 86400 }).
LIncr(p) ==
  /\ proc[p].pc = "L_incr"
  /\ \E throws \in KvThrows :
       /\ rate' = IF throws THEN rate
                  ELSE [rate EXCEPT ![proc[p].ip] =
                         RateData(proc[p].rlCount + 1, proc[p].rlReset, now)]
       /\ proc' = [proc EXCEPT ![p] = IF throws THEN RateCatch(@) ELSE AfterRate(@, TRUE)]
  /\ rlAllowed' = Allowed("code", proc[p])
  /\ UNCHANGED <<tok, cache, fault, page, ops, sum, overlap, now, nodeEnv, route, ipWin, rlFirst, rlCalls, rlHist, reqVars>>

\* glaze-profile: the steps before the first await: the development skip,
\* Date.now() and the key of the current window.
WEnter(r, c) ==
  IF nodeEnv = "development" THEN AfterRate(r, TRUE)
  ELSE [r EXCEPT !.pc = "W_get", !.tNow = now, !.win = WindowOf(now)]

\* glaze-profile: kv.get(key) as number || 0, and the comparison.
WGet(p) ==
  /\ proc[p].pc = "W_get"
  /\ LET current == ipWin[proc[p].ip][proc[p].win] IN
     \E throws \in KvThrows :
       /\ proc' = [proc EXCEPT ![p] =
            LET r == InWindow(@, @.win) IN
            IF throws THEN RateCatch(r)
            ELSE IF WindowLimitReached(current) THEN AfterRate(r, FALSE)
            ELSE [r EXCEPT !.pc = "W_set", !.rlCount = current]]
       /\ rlAllowed' = IF throws THEN Allowed("profile", proc[p]) ELSE rlAllowed
       /\ rlHist' = Noted(proc[p].ip, proc[p].win, ~throws /\ WindowLimitReached(current), FALSE)
  /\ UNCHANGED <<tok, cache, fault, page, ops, sum, overlap, now, nodeEnv, route, rate, ipWin, rlFirst, rlCalls, reqVars>>

\* glaze-profile: kv.set(key, current + 1, { ex }). A key is read only during
\* its own window, which ends before the key can expire.
WSet(p) ==
  /\ proc[p].pc = "W_set"
  /\ \E throws \in KvThrows :
       /\ ipWin' = IF throws THEN ipWin
                   ELSE [ipWin EXCEPT ![proc[p].ip][proc[p].win] = proc[p].rlCount + 1]
       /\ proc' = [proc EXCEPT ![p] = IF throws THEN RateCatch(@) ELSE AfterRate(@, TRUE)]
  /\ rlAllowed' = Allowed("profile", proc[p])
  /\ UNCHANGED <<tok, cache, fault, page, ops, sum, overlap, now, nodeEnv, route, rate, rlFirst, rlCalls, rlHist, reqVars>>

\* The store drops ip_rate_limit:<ip> 86400 seconds after its last kv.set.
RateExpire(c) ==
  /\ rate[c].present
  /\ now >= rate[c].setAt + 86400 * 1000
  /\ rate' = [rate EXCEPT ![c] = NoRate]
  /\ UNCHANGED <<tok, cache, fault, page, proc, ops, sum, overlap, now, nodeEnv, route, ipWin, rlFirst, rlCalls, rlAllowed, rlHist, reqVars>>

\* The clock advances; a snapshot of the counter is stale by then.
RateTick ==
  /\ now < MaxRateTicks * RateTickMs
  /\ now' = now + RateTickMs
  /\ cache' = IF cache.present THEN [cache EXCEPT !.age = TickMs] ELSE cache
  /\ UNCHANGED <<tok, fault, page, proc, ops, sum, overlap, nodeEnv, route, rate, ipWin, rlFirst, rlCalls, rlAllowed, rlHist, reqVars>>

\* A caller starts checkIPRateLimit(ip) of the route under study.
StartRate(p) ==
  /\ ~Running(proc[p])
  /\ \A q \in Procs : q < p => Running(proc[q])
  /\ rlCalls["a"] + rlCalls["b"] < MaxRateCalls
  /\ \E c \in Clients :
       LET r == [Idle EXCEPT !.op = "rateLimit", !.ip = c, !.idx = rlCalls[c] + 1,
                             !.inWin = InFirstWindow(route, c, now),
                             \* history: the hours named by the denial that this
                             \* caller's previous call gave the same client
                             !.prevHours =
                               IF /\ proc[p].op = "rateLimit" /\ proc[p].ip = c
                                  /\ ~proc[p].allowed /\ route = "code"
                               THEN proc[p].hours ELSE -1]
       IN /\ proc' = [proc EXCEPT ![p] =
               IF route = "code" THEN [r EXCEPT !.pc = "L_get"] ELSE WEnter(r, c)]
          /\ rlCalls' = [rlCalls EXCEPT ![c] = @ + 1]
          /\ rlFirst' = IF route = "code" THEN rlFirst ELSE SeenAt(c, now)
  /\ overlap' = (overlap \/ OthersRunning(p))
  /\ UNCHANGED <<tok, cache, fault, page, ops, sum, now, nodeEnv, route, rate, ipWin, rlAllowed, rlHist, reqVars>>

\* A caller starts checkIPRateLimit while no other call is in flight.
StartRateSeq(p) == ~OthersRunning(p) /\ StartRate(p)

RateStep(p) == LGet(p) \/ LCreate(p) \/ LIncr(p) \/ WGet(p) \/ WSet(p)

(* ------------------------------------------------------------------ *)
(* POST /glaze-profile and POST /glaze-code                            *)
(* ------------------------------------------------------------------ *)
RequestsRunning(p) == \E q \in Procs \ {p} : Running(proc[q])

\* glaze-profile POST up to its first await: the content-length test and the
\* call of checkIPRateLimit(clientIP).
ProfileEnterMut(r) ==
  IF r.bad = "size" THEN Respond(r, 400, "size", 0)
  ELSE WEnter([Pass(r, {"size"}) EXCEPT !.stack = <<"P_rate">>], r.ip)
ProfileEnter(r) ==
  IF r.bad = "size" THEN Respond(r, 413, "size", 0)
  ELSE WEnter([Pass(r, {"size"}) EXCEPT !.stack = <<"P_rate">>], r.ip)

\* glaze-code POST up to its first await: validateRequestOrigin,
\* validateUserAgent and the call of checkIPRateLimit(ip).
CodeEnterMut(r) == [r EXCEPT !.pc = "L_get", !.stack = <<"C_rate">>]
CodeEnter(r) ==
  IF ~OriginValid("code", r.bad) THEN Respond(r, 403, "origin", 0)
  ELSE IF ~UAValid("code", r.bad) THEN Respond(Pass(r, {"origin"}), 403, "ua", 0)
  ELSE [Pass(r, {"origin", "ua"}) EXCEPT !.pc = "L_get", !.stack = <<"C_rate">>]

\* A request arrives at one of the two routes.
StartRequest(p, bound, clients, flaws) ==
  /\ ~Running(proc[p])
  /\ \A q \in Procs : q < p => Running(proc[q])
  /\ reqs < bound
  /\ reqs' = reqs + 1
  /\ overlap' = (overlap \/ OthersRunning(p))
  /\ \E rt \in {"profile", "code"} : \E c \in clients : \E bad \in Flaws(rt) \cap flaws :
     \E len \in IF rt = "code" THEN CodeLens ELSE {0} :
       LET r == [Idle EXCEPT !.op = "request", !.rt = rt, !.ip = c, !.bad = bad,
                             !.len = len,
                             !.tok0 = IF tok.type = "number" THEN tok.v ELSE 0,
                             \* history: the client's rate records on arrival
                             !.rateAt = rate[c], !.winAt = ipWin[c][WindowOf(now)]]
       IN proc' = [proc EXCEPT ![p] =
            IF rt = "profile" THEN ProfileEnter(r) ELSE CodeEnter(r)]
  /\ UNCHANGED <<tok, cache, fault, page, ops, sum, spent, tokV1, rlVars>>

\* fetchCodeforcesData: one call of the Codeforces API; a reply that is not
\* OK throws, and the handler's catch answers 404 or 500 by the message.
PFetchUser(p) ==
  /\ proc[p].pc = "P_user"
  /\ \E reply \in {"OK", "notFound", "failed"} :
       proc' = [proc EXCEPT ![p] =
         LET r == [@ EXCEPT !.ext = @ \cup {"user"}] IN
         IF reply = "OK" THEN [r EXCEPT !.pc = "P_subs", !.pages = 0]
         ELSE IF reply = "notFound" THEN Respond(r, 404, "fetch", 0)
         ELSE Respond(r, 500, "fetch", 0)]
  /\ UNCHANGED <<tok, cache, fault, page, ops, sum, overlap, rlVars, reqVars>>

\* fetchUserSubmissions: one page of the submissions; after the last page,
\* formatUserData, estimateTokenUsage and the call of checkGlobalTokenLimit.
PFetchSubs(p) ==
  /\ proc[p].pc = "P_subs"
  /\ \E full \in BOOLEAN : \E len \in ProfileLens :
       /\ (full /\ (proc[p].pages + 1) * batchSize < maxSubmissions) => (len = 0)
       /\ proc' = [proc EXCEPT ![p] =
            LET r == [@ EXCEPT !.ext = @ \cup {"submissions"}, !.pages = @ + 1] IN
            IF full /\ r.pages * batchSize < maxSubmissions THEN r
            ELSE CallCheck([r EXCEPT !.len = len, !.pages = 0],
                           EstimateTokenUsage("profile", len), "P_second")]
  /\ UNCHANGED <<tok, cache, fault, page, ops, sum, overlap, rlVars, reqVars>>

\* generateGlaze: the completion call; then, for some requests, the
\* fire-and-forget backgroundReconciliation(), and the call of
\* incrementGlobalTokensKV(glazeResult.tokensUsed).
PComplete(p) ==
  /\ proc[p].pc = "P_complete"
  /\ \E failed \in BOOLEAN : \E total_tokens \in Usages : \E reconcile \in BOOLEAN :
       /\ failed => (total_tokens = 0 /\ ~reconcile)
       /\ reconcile => ~Running(proc[Bg])
       /\ spent' = spent + total_tokens
       /\ LET r == [proc[p] EXCEPT !.ext = @ \cup {"completion"}, !.nComp = @ + 1,
                                   !.usage = total_tokens] IN
          proc' = [proc EXCEPT
            ![p] = IF failed THEN Respond(r, 500, "completion", 0)
                   ELSE CallIncrement(r, total_tokens, "P_incr"),
            ![Bg] = IF reconcile THEN [Idle EXCEPT !.op = "reconcile", !.pc = "R_del"]
                    ELSE @]
  /\ UNCHANGED <<tok, cache, fault, page, ops, sum, overlap, rlVars, reqs, tokV1>>

\* generateCodeGlaze: the completion call, tokensUsed =
\* response.usage?.total_tokens || estimatedTokens, and the call of
\* incrementGlobalTokensKV(tokensUsed).
CComplete(p) ==
  /\ proc[p].pc = "C_complete"
  /\ \E failed \in BOOLEAN : \E total_tokens \in Usages :
       /\ failed => (total_tokens = 0)
       /\ spent' = spent + total_tokens
       /\ LET r == [proc[p] EXCEPT !.ext = @ \cup {"completion"}, !.nComp = @ + 1,
                                   !.usage = total_tokens] IN
          proc' = [proc EXCEPT ![p] =
            IF failed THEN Respond(r, 500, "completion", 0)
            ELSE CallIncrement(r, IF total_tokens # 0 THEN total_tokens ELSE r.est, "C_incr")]
  /\ UNCHANGED <<tok, cache, fault, page, ops, sum, overlap, rlVars, reqs, tokV1>>

\* Requests that take turns: the next one arrives after the response to the
\* previous one.
StartRequestSeq(p) ==
  ~RequestsRunning(p) /\ StartRequest(p, MaxRequests, Clients, Flaws("profile"))

\* Well-formed requests of one client that may overlap.
StartRequestRace(p) == StartRequest(p, MaxRaceRequests, {"a"}, {"none"})

RequestStep(p) == PFetchUser(p) \/ PFetchSubs(p) \/ PComplete(p) \/ CComplete(p)

(* ------------------------------------------------------------------ *)
(* POST /reset-tokens                                                  *)
(* ------------------------------------------------------------------ *)
\* The secret of the request's body: missing, or a string that differs from or
\* equals the configured one.
Secrets == {"missing", "nonString", "wrong", "right"}

\* POST up to kv.set: request.json() and the three tests on the secret.
ResetEnterMut(r, secret, configured) ==
  IF secret = "missing" THEN Respond(r, 400, "noSecret", 0)
  ELSE IF ~configured THEN Respond(r, 500, "config", 0)
  ELSE [r EXCEPT !.pc = "T_set"]
ResetEnter(r, secret, configured) ==
  IF secret \in {"missing", "nonString"} THEN Respond(r, 400, "noSecret", 0)
  ELSE IF ~configured THEN Respond(r, 500, "config", 0)
  ELSE IF secret # "right" THEN Respond(r, 401, "badSecret", 0)
  ELSE [r EXCEPT !.pc = "T_set"]

\* kv.set(TOKEN_KEY, 0) with the handler's own TOKEN_KEY, 'global_tokens_used',
\* and the response { success: true, tokensUsed: 0 }; the catch answers 500.
TSet(p) ==
  /\ proc[p].pc = "T_set"
  /\ \E throws \in KvThrows :
       /\ tokV1' = IF throws THEN tokV1 ELSE Num(0)
       /\ proc' = [proc EXCEPT ![p] =
            IF throws THEN Respond(@, 500, "error", 0) ELSE Respond(@, 200, "none", 0)]
  /\ UNCHANGED <<tok, cache, fault, page, ops, sum, overlap, rlVars, spent, reqs>>

\* The next operation of an operator's session, after the previous one has
\* returned: a POST to reset-tokens, or a read of the usage; a read remembers
\* whether it follows a reset that succeeded.
StartAdmin(p) ==
  /\ ~Running(proc[p])
  /\ ~OthersRunning(p)
  /\ \A q \in Procs : q < p => Running(proc[q])
  /\ ops < MaxAdminOps
  /\ ops' = ops + 1
  /\ \E kind \in {"reset", "getUsed", "checkBudget"} :
     \E secret \in Secrets : \E configured \in BOOLEAN : \E e \in Estimates :
       /\ (kind # "reset") => (secret = "right" /\ configured)
       /\ proc' = [proc EXCEPT ![p] =
            IF kind = "reset"
            THEN ResetEnter([Idle EXCEPT !.op = "reset",
                               \* history: what the request carried and found
                               !.secret = secret, !.configured = configured],
                            secret, configured)
            ELSE [Idle EXCEPT !.op = kind, !.pc = "G_cache", !.est = e,
                    !.stack = IF kind = "checkBudget" THEN <<"check">> ELSE <<>>,
                    !.afterReset = (proc[p].op = "reset" /\ proc[p].status = 200)]]
  /\ UNCHANGED <<tok, cache, fault, page, sum, overlap, rlVars, reqVars>>

(* ------------------------------------------------------------------ *)
(* Specifications of the counter store                                 *)
(* ------------------------------------------------------------------ *)
\* Counter values the store starts with: a little below the limit, so that the
\* budget comparison meets its boundary.
NearLimit == MAX_DAILY_TOKENS - (MaxAmount + 1)
InitToks == {TNull, TBad, Num(0), Num(NearLimit)}

\* The rate limiter's keys are absent and its clock is at the epoch.
InitRate ==
  /\ now = 0
  /\ rate = [c \in Clients |-> NoRate]
  /\ ipWin = [c \in Clients |-> [w \in Windows |-> 0]]
  /\ rlFirst = [c \in Clients |-> [seen |-> FALSE, at |-> 0]]
  /\ rlCalls = [c \in Clients |-> 0]
  /\ rlHist = [c \in Clients |-> [wins |-> {}, denied |-> {}, lateSeen |-> FALSE]]
  /\ rlAllowed = [rt \in {"profile", "code"} |-> [c \in Clients |-> 0]]

InitStore(f) ==
  /\ InitRate
  /\ nodeEnv = "production"
  /\ route = "profile"
  /\ tok \in InitToks
  /\ cache \in {NoCache} \cup (IF tok.type = "number" THEN {Snapshot(tok.v)} ELSE {})
  /\ fault = f
  /\ page = PageInit
  /\ proc = [p \in AllProcs |-> Idle]
  /\ ops = 0
  /\ sum = tok.v
  /\ overlap = FALSE
  /\ spent = tok.v
  /\ reqs = 0
  /\ tokV1 = TNull

NextStore == (\E p \in Procs : StartOp(p) \/ StoreStep(p)) \/ Tick \/ ExpireCache

\* Concurrent callers over a fault-free store.
Init == InitStore("none")
Next == NextStore
Spec == Init /\ [][Next]_vars

\* Callers taking turns over a fault-free store.
NextSeq == (\E p \in Procs : StartSeq(p) \/ StoreStep(p)) \/ Tick \/ ExpireCache
SpecSeq == Init /\ [][NextSeq]_vars

\* Callers taking turns over a store that is fault-free or whose verification
\* reads mismatch.
StoreFaults == {"none", "mismatch"}
InitFaulty == \E f \in StoreFaults : InitStore(f)
SpecFaulty == InitFaulty /\ [][NextSeq]_vars

\* Readers of the counter (getGlobalTokensUsed, checkGlobalTokenLimit) taking
\* turns over a store any of whose calls may throw.
StartRead(p) ==
  ~OthersRunning(p) /\ StartKind(p, MaxSeqOps, {"getUsed", "checkBudget"})
ReadStep(p) ==
  \/ GCacheGet(p) \/ GTokGet(p) \/ GInitSet(p) \/ GVerifyGet(p) \/ GCacheSet(p)
  \/ GResetTok(p) \/ GResetCache(p)
NextRead == (\E p \in Procs : StartRead(p) \/ ReadStep(p)) \/ Tick \/ ExpireCache
SpecReadErr == InitStore("error") /\ [][NextRead]_vars

\* Increments taking turns over a store any of whose calls may throw.
StartWrite(p) ==
  ~OthersRunning(p) /\ StartKindNoting(p, MaxWriteOps, {"increment"}, {"increment"})
WriteStep(p) ==
  \/ ReadStep(p) \/ IWrite(p) \/ IVerify(p) \/ ICacheSet(p)
NextWrite == (\E p \in Procs : StartWrite(p) \/ WriteStep(p)) \/ Tick \/ ExpireCache
SpecWriteErr == InitStore("error") /\ [][NextWrite]_vars

\* Calls of getGlobalTokensUsed and incrementGlobalTokensKV taking turns over
\* a store of any behaviour. Every call the code awaits settles, and the
\* event loop then runs the continuation: each caller's steps are weakly fair.
StoreBehaviours == {"none", "mismatch", "error", "absent", "garbage"}
InitLive == \E f \in StoreBehaviours : InitStore(f)
StartLive(p) ==
  ~OthersRunning(p) /\ StartKind(p, MaxLiveOps, {"getUsed", "increment"})
NextLive == (\E p \in Procs : StartLive(p) \/ WriteStep(p)) \/ Tick \/ ExpireCache
SpecLive ==
  InitLive /\ [][NextLive]_vars /\ \A p \in Procs : WF_vars(WriteStep(p))

\* An operator resetting the counter and reading the usage, one operation
\* after the other.
NextAdmin ==
  \/ \E p \in Procs : StartAdmin(p)
  \/ \E p \in Procs : ReadStep(p) \/ TSet(p)
  \/ Tick
  \/ ExpireCache
SpecAdmin == InitStore("none") /\ [][NextAdmin]_vars

\* Callers of the rate limiter of either route, in production or development,
\* taking turns.
InitLimiterOn(f) ==
  /\ InitRate
  /\ nodeEnv \in {"production", "development"}
  /\ route \in {"profile", "code"}
  /\ tok = Num(0)
  /\ cache = NoCache
  /\ fault = f
  /\ page = PageInit
  /\ proc = [p \in AllProcs |-> Idle]
  /\ ops = 0
  /\ sum = 0
  /\ overlap = FALSE
  /\ spent = 0
  /\ reqs = 0
  /\ tokV1 = TNull
NextLimiter ==
  \/ \E p \in Procs : StartRateSeq(p) \/ RateStep(p)
  \/ RateTick
  \/ \E c \in Clients : RateExpire(c)
InitLimiter == InitLimiterOn("none")
SpecLimiter == InitLimiter /\ [][NextLimiter]_vars

\* Callers taking turns within one window over a store any of whose calls may
\* throw.
StartRateErr(p) ==
  /\ rlCalls["a"] + rlCalls["b"] < MaxErrCalls
  /\ StartRateSeq(p)
NextLimiterErr ==
  \/ \E p \in Procs : StartRateErr(p)
  \/ \E p \in Procs : RateStep(p)
SpecLimiterErr == InitLimiterOn("error") /\ [][NextLimiterErr]_vars

\* Calls of checkIPRateLimit that overlap, within one window (the clock stands
\* still), in production, the store answering every call.
InitLimiterRace == InitLimiter /\ nodeEnv = "production"
StartRateRace(p) ==
  /\ rlCalls["a"] + rlCalls["b"] < MaxLimiterRaceCalls
  /\ StartRate(p)
NextLimiterRace ==
  \/ \E p \in Procs : StartRateRace(p)
  \/ \E p \in Procs : RateStep(p)
SpecLimiterRace == InitLimiterRace /\ [][NextLimiterRace]_vars

\* Counter values a request can find: the key absent, the largest value that
\* passes the pre-check of glaze-profile, and ten below the limit.
ServeToks ==
  {TNull, Num(MAX_DAILY_TOKENS - preCheckTokens), Num(MAX_DAILY_TOKENS - 10)}

\* Client "a" has made no request; client "b" has used up both limiters in
\* the current window.
InitServeOn(toks, envs, faults) ==
  /\ now = 0
  /\ rate = [c \in Clients |->
       IF c = "a" THEN NoRate ELSE RateData(maxRequestsCode, dayMs, 0)]
  /\ ipWin = [c \in Clients |-> [w \in Windows |->
       IF c = "b" /\ w = 0 THEN maxRequests ELSE 0]]
  /\ rlFirst = [c \in Clients |-> [seen |-> FALSE, at |-> 0]]
  /\ rlCalls = [c \in Clients |-> 0]
  /\ rlHist = [c \in Clients |->
       [wins |-> IF c = "a" THEN {} ELSE {0}, denied |-> {}, lateSeen |-> FALSE]]
  /\ rlAllowed = [rt \in {"profile", "code"} |-> [c \in Clients |->
       IF c = "a" THEN 0 ELSE MaxOf(rt)]]
  /\ nodeEnv \in envs
  /\ route = "profile"
  /\ tok \in toks
  /\ cache \in {NoCache} \cup (IF tok.type = "number" THEN {Snapshot(tok.v)} ELSE {})
  /\ fault \in faults
  /\ page = PageInit
  /\ proc = [p \in AllProcs |-> Idle]
  /\ ops = 0
  /\ sum = tok.v
  /\ overlap = FALSE
  /\ spent = tok.v
  /\ reqs = 0
  /\ tokV1 = TNull
InitServe(toks, envs) == InitServeOn(toks, envs, {"none"})

\* The steps of a handler and of its background task. A snapshot older than
\* its time-to-live is read as an absent one, so its removal by the store is
\* not a step of its own here. Their reads of the
\* counter find a number or no key, never a value of another type, so the
\* repairs of getGlobalTokensUsed (third read of a non-number) and of
\* backgroundReconciliation (no number) are never enabled here.
HandlerStep(p) ==
  \/ GCacheGet(p) \/ GTokGet(p) \/ GCacheSet(p)
  \/ IWrite(p) \/ IVerify(p) \/ ICacheSet(p)
  \/ RDel(p) \/ RGet(p) \/ RCacheSet(p)
  \/ RateStep(p) \/ RequestStep(p)

\* getGlobalTokensUsed finds no counter key and creates it.
CreateStep(p) == GInitSet(p) \/ GVerifyGet(p)

\* Requests taking turns, each with its background reconciliation.
NextServe ==
  \/ \E p \in Procs : StartRequestSeq(p)
  \/ \E p \in AllProcs : HandlerStep(p) \/ CreateStep(p)
  \/ Tick
SpecServe == InitServe(ServeToks, {"production", "development"}) /\ [][NextServe]_vars

\* Well-formed requests of one client taking turns over a store whose
\* verification reads mismatch or whose calls may throw. The steps are the
\* handlers' own; a reconciliation they start has not run yet.
StartRequestFault(p) ==
  ~RequestsRunning(p) /\ StartRequest(p, MaxFaultRequests, {"a"}, {"none"})
FaultStep(p) ==
  \/ WriteStep(p) \/ RateStep(p) \/ RequestStep(p)
NextServeFault == \E p \in Procs : StartRequestFault(p) \/ FaultStep(p)
SpecServeFault ==
  InitServeOn({TNull, TBad}, {"production"}, {"mismatch", "error"})
    /\ [][NextServeFault]_vars

\* Well-formed requests of one client taking turns, each with its background
\* reconciliation, over a store that fails the reconciliation's calls only.
StartRequestRecon(p) ==
  ~RequestsRunning(p) /\ StartRequest(p, MaxReconRequests, {"a"}, {"none"})
ReconStep(p) == HandlerStep(p) \/ CreateStep(p)
NextReconErr ==
  \/ \E p \in Procs : StartRequestRecon(p)
  \/ \E p \in AllProcs : ReconStep(p)
SpecReconErr ==
  InitServeOn({TNull, Num(0)}, {"production"}, {"reconError"}) /\ [][NextReconErr]_vars

\* Requests of one client taking turns, well-formed or with foreign Origin
\* and Referer headers, in each mode: "test" stands for every NODE_ENV that
\* is neither 'production' nor 'development', an unset one included.
NodeEnvs == {"production", "development", "test"}
StartRequestEnv(p) ==
  ~RequestsRunning(p) /\ StartRequest(p, MaxEnvRequests, {"a"}, {"none", "origin"})
NextServeEnv ==
  \/ \E p \in Procs : StartRequestEnv(p)
  \/ \E p \in AllProcs : HandlerStep(p) \/ CreateStep(p)
SpecServeEnv == InitServe(ServeToks, NodeEnvs) /\ [][NextServeEnv]_vars

(* ------------------------------------------------------------------ *)
(* fetchUserSubmissions                                                *)
(* ------------------------------------------------------------------ *)
\* The values of the parameter maxSubmissions: the default, and half of it.
SubmissionCaps == {maxSubmissions, maxSubmissions \div 2}

\* What one request to user.status can bring when `count` were asked for: a
\* reply with status OK and no, one, count - 1 or count submissions, a reply
\* of another status, or no reply (fetch or response.json() throws).
Replies(count) ==
  {[kind |-> "OK", n |-> k] : k \in {0, 1, count - 1, count}}
    \cup {[kind |-> "FAILED", n |-> 0], [kind |-> "throws", n |-> 0]}

MinOf(a, b) == IF a < b THEN a ELSE b

\* The head of the while loop up to its first await: the loop test, count,
\* and the test `from > 1` that guards the delay. History: requests, delays.
FLoopMut(r) ==
  IF r.got < r.cap
  THEN [r EXCEPT !.count = MinOf(batchSize, r.cap - r.got), !.pc = "F_fetch"]
  ELSE Finish(r, "returned", r.got)
FLoop(r) ==
  IF r.got < r.cap
  THEN [r EXCEPT !.count = MinOf(batchSize, r.cap - r.got),
                 !.pc = IF r.from > 1 THEN "F_wait" ELSE "F_fetch"]
  ELSE Finish(r, "returned", r.got)

\* A call of fetchUserSubmissions(username, cap), the calls taking turns.
StartFetch(p) ==
  /\ ~Running(proc[p])
  /\ ~OthersRunning(p)
  /\ \A q \in Procs : q < p => Running(proc[q])
  /\ ops < MaxFetchCalls
  /\ ops' = ops + 1
  /\ \E cap \in SubmissionCaps :
       proc' = [proc EXCEPT ![p] =
         FLoop([Idle EXCEPT !.op = "fetch", !.cap = cap, !.from = 1])]
  /\ UNCHANGED <<tok, cache, fault, page, sum, overlap, rlVars, reqVars>>

\* The timer of the delay (1000 ms) fires.
FWait(p) ==
  /\ proc[p].pc = "F_wait"
  /\ proc' = [proc EXCEPT ![p] = [@ EXCEPT !.delays = @ + 1, !.pc = "F_fetch"]]
  /\ UNCHANGED <<tok, cache, fault, page, ops, sum, overlap, rlVars, reqVars>>

\* fetch(...user.status?handle&from&count), response.json() and the handling
\* of the reply; the catch returns [].
FFetch(p) ==
  /\ proc[p].pc = "F_fetch"
  /\ \E data \in Replies(proc[p].count) :
       proc' = [proc EXCEPT ![p] =
         LET r == [@ EXCEPT !.requests = @ + 1] IN
         IF data.kind = "throws" THEN Finish(r, "returned", 0)
         ELSE IF data.kind = "OK" /\ data.n > 0
         THEN LET r1 == [r EXCEPT !.got = @ + data.n] IN
              IF data.n < r.count THEN Finish(r1, "returned", r1.got)
              ELSE FLoop([r1 EXCEPT !.from = @ + r.count])
         ELSE Finish(r, "returned", r.got)]
  /\ UNCHANGED <<tok, cache, fault, page, ops, sum, overlap, rlVars, reqVars>>

\* Calls of fetchUserSubmissions taking turns. Every request and every timer
\* the code awaits settles: the caller's steps are weakly fair.
FetchStep(p) == FWait(p) \/ FFetch(p)
NextFetch == \E p \in Procs : StartFetch(p) \/ FetchStep(p)
SpecFetch ==
  InitStore("none") /\ [][NextFetch]_vars /\ \A p \in Procs : WF_vars(FetchStep(p))

(* ------------------------------------------------------------------ *)
(* The page: the two forms of Home and their requests                  *)
(* ------------------------------------------------------------------ *)
Usernames == {"", "valid", "bad chars"}
PageKeeps == <<tok, cache, fault, proc, ops, sum, overlap, rlVars, reqVars>>

\* The tab buttons: setActiveTab.
PSetTab ==
  /\ \E tab \in {"profile", "code"} :
       tab # page.activeTab /\ page' = [page EXCEPT !.activeTab = tab]
  /\ UNCHANGED PageKeeps

\* Typing in the username input of the profile form (disabled while loading).
PType ==
  /\ page.activeTab = "profile" /\ ~page.loading
  /\ \E u \in Usernames : u # page.username /\ page' = [page EXCEPT !.username = u]
  /\ UNCHANGED PageKeeps

\* handleFileChange with a file that is accepted (the input is disabled
\* while codeLoading), and handleClearCode.
PFile ==
  /\ page.activeTab = "code" /\ ~page.codeLoading
  /\ page' = [page EXCEPT !.codeContent = ~@]
  /\ UNCHANGED PageKeeps

\* Time passes, half a gap at a time.
PTick ==
  /\ page.ticks < MaxPageTicks
  /\ page' = [page EXCEPT !.clock = @ + minGapMs \div 2, !.ticks = @ + 1]
  /\ UNCHANGED PageKeeps

\* The test `timeSinceLastRequest < 20000` of both handlers.
TooSoon(pg) == pg.clock - pg.lastRequestTime < minGapMs

\* handleSubmit up to its fetch: the submit button is enabled when
\* !loading and username.trim() is not empty.
PSubmit ==
  /\ page.activeTab = "profile" /\ ~page.loading /\ page.username # ""
  /\ page.sent + page.blocked < MaxPageSubmits
  /\ page' =
       IF TooSoon(page)
       THEN [page EXCEPT !.error = "wait", !.blocked = @ + 1]
       ELSE IF page.username # "valid"
       THEN [page EXCEPT !.error = "username", !.blocked = @ + 1]
       ELSE [page EXCEPT !.loading = TRUE, !.error = "",
                         !.lastRequestTime = page.clock,
                         !.inflight["profile"] = @ + 1, !.sent = @ + 1]
  /\ UNCHANGED PageKeeps

\* handleCodeSubmit up to its fetch: the submit button is enabled when
\* !codeLoading and codeContent is not empty.
PCodeSubmit ==
  /\ page.activeTab = "code" /\ ~page.codeLoading /\ page.codeContent
  /\ page.sent + page.blocked < MaxPageSubmits
  /\ page' =
       IF TooSoon(page)
       THEN [page EXCEPT !.codeError = "wait", !.blocked = @ + 1]
       ELSE [page EXCEPT !.codeLoading = TRUE, !.codeError = "",
                         !.lastRequestTime = page.clock,
                         !.inflight["code"] = @ + 1, !.sent = @ + 1]
  /\ UNCHANGED PageKeeps

\* The response of an awaited fetch arrives (or the fetch fails): the rest of
\* the handler, with its finally block.
PSettle ==
  /\ \E k \in {"profile", "code"} : \E ok \in BOOLEAN :
       /\ page.inflight[k] > 0
       /\ page' =
            IF k = "profile"
            THEN [page EXCEPT !.inflight[k] = @ - 1, !.loading = FALSE,
                              !.error = IF ok THEN @ ELSE "failed"]
            ELSE [page EXCEPT !.inflight[k] = @ - 1, !.codeLoading = FALSE,
                              !.codeError = IF ok THEN @ ELSE "failed"]
  /\ UNCHANGED PageKeeps

\* One instance of the page.
NextPage == PSetTab \/ PType \/ PFile \/ PTick \/ PSubmit \/ PCodeSubmit \/ PSettle
InitPage == InitStore("none") /\ tok = TNull /\ cache = NoCache
SpecPage == InitPage /\ [][NextPage]_vars

\* Concurrent requests with the counter, a number, near the limit.
NextRace ==
  \/ \E p \in Procs : StartRequestRace(p)
  \/ \E p \in AllProcs : HandlerStep(p)
  \/ Tick
SpecRace ==
  InitServe({Num(MAX_DAILY_TOKENS - preCheckTokens)}, {"production"})
    /\ [][NextRace]_vars

(* ------------------------------------------------------------------ *)
(* Properties of the counter store                                     *)
(* ------------------------------------------------------------------ *)
Done(p, kind) == proc[p].pc = "done" /\ proc[p].op = kind

\* The stored counter as a number (an absent or non-numeric value counts 0).
TokNum == IF tok.type = "number" THEN tok.v ELSE 0

\* C1: when increments run one at a time over a fault-free store, every
\* increment returns the running total (the initial counter plus all amounts
\* so far) and getUsed returns that sum; no increment raises.
C1_SequentialSum ==
  \A p \in Procs :
    (Done(p, "increment") \/ Done(p, "getUsed")) =>
      (proc[p].outcome = "returned" /\ proc[p].ret = proc[p].expect)

\* C1 witness: getUsed has returned the sum of at least two increments.
C1_Witness ==
  \E p \in Procs :
    /\ Done(p, "getUsed")
    /\ ops = MaxSeqOps
    /\ proc[p].ret = sum
    /\ sum > MaxAmount
    /\ sum < NearLimit

\* C2: over a store whose verification reads mismatch, increment never reaches
\* its return: it ends by raising, after exactly maxAttempts writes of the counter.
C2_MismatchRaises ==
  fault = "mismatch" =>
  \A p \in Procs :
    /\ proc[p].op = "increment" => proc[p].pc # "I_setc"
    /\ Done(p, "increment") =>
         (proc[p].outcome = "raised" /\ proc[p].writes = maxAttempts)

\* C2 witness: an increment has raised after three read-modify-write attempts.
C2_Witness ==
  \E p \in Procs :
    fault = "mismatch" /\ Done(p, "increment") /\ proc[p].outcome = "raised" /\ proc[p].writes = maxAttempts

\* C3: checkBudget answers not-allowed exactly when the usage it read plus the
\* estimate exceeds the limit; usage + estimate = limit is allowed.
C3_BudgetIff ==
  \A p \in Procs :
    Done(p, "checkBudget") =>
      ((~proc[p].allowed) <=> (proc[p].used + proc[p].est > MAX_DAILY_TOKENS))

\* C3 witness: a check at the boundary usage + estimate = limit was allowed.
C3_Witness ==
  \E p \in Procs :
    /\ Done(p, "checkBudget")
    /\ proc[p].used + proc[p].est = MAX_DAILY_TOKENS
    /\ proc[p].allowed

C4_FirstMAllowed ==
  \A p \in Procs :
    (Done(p, "rateLimit") /\ proc[p].inWin) =>
      (proc[p].allowed <=> proc[p].idx <= MaxOf(route))

\* C4 amended: the same, except for glaze-profile's limiter in development
\* mode, which allows every call.
C4_FirstMAllowedOutsideDevelopment ==
  \A p \in Procs :
    (Done(p, "rateLimit") /\ proc[p].inWin) =>
      IF route = "profile" /\ nodeEnv = "development"
      THEN proc[p].allowed
      ELSE (proc[p].allowed <=> proc[p].idx <= MaxOf(route))

\* C4 witness: call M + 1 of a client, made in its first window after M calls
\* that took turns, was denied.
C4_Witness ==
  \E p \in Procs :
    /\ Done(p, "rateLimit") /\ proc[p].inWin
    /\ proc[p].idx = MaxOf(route) + 1
    /\ ~proc[p].allowed
    /\ now > 0

(* ------------------------------------------------------------------ *)
(* Properties of the request handlers                                  *)
(* ------------------------------------------------------------------ *)
\* The seven gatekeeper checks, and those a route performs.
Seven == {"size", "origin", "ua", "honeypot", "input", "rate", "preBudget"}
ChecksOf(rt) == IF rt = "code" THEN Seven \ {"size"} ELSE Seven

\* The estimate of the budget check that precedes the first external call.
PreEstimate(r) ==
  IF r.rt = "profile" THEN 2500 ELSE CeilDiv(r.len, 4) + 1000

\* What a passed check says about the request.
Sound(r) ==
  /\ "size" \in r.passed => r.bad # "size"
  /\ "origin" \in r.passed => (r.bad # "origin" \/ nodeEnv # "production")
  /\ "ua" \in r.passed =>
       (r.bad # "uaEmpty" /\ (nodeEnv = "production" => r.bad \notin {"uaBot", "uaOther"}))
  /\ "honeypot" \in r.passed => r.bad # "honeypot"
  /\ "input" \in r.passed => r.bad \notin {"json", "input"}
  /\ "rate" \in r.passed => r.rateOk
  /\ "preBudget" \in r.passed => r.preUsed + PreEstimate(r) <= MAX_DAILY_TOKENS

\* A request denied by one of the seven checks made no external call and
\* started no increment.
DeniedClean(r) ==
  (r.pc = "done" /\ r.deniedAt \in Seven) => (r.ext = {} /\ ~r.incr)

\* C5 as stated: in both routes a request has made an external call only
\* after all seven gatekeeper checks (size, origin, user-agent, honeypot, input
\* validation, rate limiter, pre-flight budget) passed for it, and a request
\* denied by one of them made no external call and no increment.
C5_AllSevenBeforeExternal ==
  \A p \in Procs :
    proc[p].op = "request" =>
      /\ (proc[p].ext # {}) => (Seven \subseteq proc[p].passed /\ Sound(proc[p]))
      /\ DeniedClean(proc[p])

\* C5 amended: the same with the checks the route performs: all seven in
\* glaze-profile, all but the size check in glaze-code.
C5_RouteChecksBeforeExternal ==
  \A p \in Procs :
    proc[p].op = "request" =>
      /\ (proc[p].ext # {}) =>
           (ChecksOf(proc[p].rt) \subseteq proc[p].passed /\ Sound(proc[p]))
      /\ DeniedClean(proc[p])

\* C5 witness: a glaze-profile request was answered 200 after its external
\* calls, and all seven checks had passed.
C5_Witness ==
  \E p \in Procs :
    /\ Done(p, "request") /\ proc[p].rt = "profile" /\ proc[p].status = 200
    /\ proc[p].ext = {"user", "submissions", "completion"}
    /\ Seven \subseteq proc[p].passed

\* C6: in both routes a request that reaches the honeypot check with the field
\* filled is answered 200 with tokensUsed = 0, and has made no external call
\* and no increment.
C6_HoneypotLooksSuccessful ==
  \A p \in Procs :
    (Done(p, "request") /\ proc[p].bad = "honeypot" /\ proc[p].deniedAt = "honeypot") =>
      /\ proc[p].status = 200
      /\ proc[p].respTokens = 0
      /\ proc[p].ext = {}
      /\ ~proc[p].incr

\* C7: a request that ran with no other request and was answered 200 made
\* exactly one completion call, and the stored counter is its value at the start
\* of the request plus the usage the completion reported.
C7_CounterIsStartPlusUsage ==
  \A p \in Procs :
    (Done(p, "request") /\ proc[p].status = 200 /\ proc[p].deniedAt = "none"
       /\ proc[p].usage > 0) =>
      (proc[p].nComp = 1 /\ TokNum = proc[p].tok0 + proc[p].usage)

\* C8: a glaze-profile request whose pre-check read usage + 2500 above the
\* limit never passes that check; it is answered 429 there, with no external
\* call, no increment, and the stored counter as it was.
C8_PreCheckDenies ==
  \A p \in Procs :
    (proc[p].op = "request" /\ proc[p].rt = "profile") =>
      /\ "preBudget" \in proc[p].passed => proc[p].preUsed + 2500 <= MAX_DAILY_TOKENS
      /\ (proc[p].pc = "done" /\ proc[p].deniedAt = "preBudget") =>
           /\ proc[p].preUsed + 2500 > MAX_DAILY_TOKENS
           /\ proc[p].status = 429
           /\ proc[p].ext = {}
           /\ ~proc[p].incr
           /\ TokNum = proc[p].tok0

\* C8 witness: with the counter ten below the limit, a glaze-profile request
\* was denied at the pre-check.
C8_Witness ==
  \E p \in Procs :
    /\ Done(p, "request") /\ proc[p].rt = "profile"
    /\ proc[p].deniedAt = "preBudget" /\ proc[p].status = 429
    /\ proc[p].preUsed = MAX_DAILY_TOKENS - 10

\* C10: the usage of all completion calls, counted from a counter of zero,
\* never exceeds MAX_DAILY_TOKENS, however the requests interleave (every
\* completion here reports at most the estimate of its budget check).
C10_UsageWithinLimit == spent <= MAX_DAILY_TOKENS

(* ------------------------------------------------------------------ *)
(* C11: overlapping calls of one client within one window               *)
(* ------------------------------------------------------------------ *)
\* C11: whatever the interleaving of one client's calls within one window,
\* the store answering every call, the limiter allows at most M of them
\* (M = 4 for glaze-code, 8 for glaze-profile). The code reads the count and
\* writes it back in two steps, so two calls that read M - 1 are both allowed.
C11_AllowedAtMostM ==
  \A c \in Clients : rlAllowed[route][c] <= MaxOf(route)
\* The same count when the calls take turns: never above M.
C11_AllowedAtMostMInTurn ==
  (~overlap) => \A c \in Clients : rlAllowed[route][c] <= MaxOf(route)
(* ------------------------------------------------------------------ *)
(* C12: getGlobalTokensUsed fails soft                                 *)
(* ------------------------------------------------------------------ *)
\* C12: getUsed never raises to its caller: whatever the store does (any read
\* or write throwing, the key absent, a value that is not a number), the call
\* returns a natural number, and it returns 0 when all its attempts failed.
C12_GetUsedNeverRaises ==
  \A p \in Procs :
    Done(p, "getUsed") =>
      /\ proc[p].outcome = "returned"
      /\ proc[p].ret \in Nat
      /\ (proc[p].tries >= maxAttempts => proc[p].ret = 0)
\* A call has used up its attempts and returned 0 although the store holds a
\* positive counter: its calls of the store threw.
C12_Witness ==
  \E p \in Procs :
    /\ Done(p, "getUsed") /\ proc[p].tries >= maxAttempts /\ proc[p].ret = 0
    /\ tok.type = "number" /\ tok.v > 0
(* ------------------------------------------------------------------ *)
(* C13: checkIPRateLimit fails open                                    *)
(* ------------------------------------------------------------------ *)
\* C13: when a read or a write of the store inside the rate limiter throws,
\* the call returns allowed = true: it neither denies nor raises because of
\* the store's error.
C13_FailOpen ==
  \A p \in Procs :
    (Done(p, "rateLimit") /\ proc[p].threw) =>
      proc[p].outcome = "returned" /\ proc[p].allowed
\* A call is allowed through the catch although the client's count has
\* reached the maximum.
C13_Witness ==
  \E p \in Procs :
    /\ Done(p, "rateLimit") /\ proc[p].threw /\ proc[p].allowed
    /\ route = "code" /\ RateLimitReached(rate[proc[p].ip].count)
(* ------------------------------------------------------------------ *)
(* C14: what checkGlobalTokenLimit writes                              *)
(* ------------------------------------------------------------------ *)
\* C14: checkBudget leaves the store unchanged: no step of a call of
\* checkBudget changes the counter key or the snapshot key, whatever they
\* hold. The code reads the usage with getGlobalTokensUsed, which writes the
\* snapshot after every read of the counter and creates or repairs the
\* counter.
C14_CheckLeavesStore ==
  [][\A p \in Procs :
       (proc[p].op = "checkBudget" /\ Running(proc[p]) /\ proc'[p] # proc[p]) =>
         (tok' = tok /\ cache' = cache)]_vars
\* C14 as the code has it: a step of checkBudget leaves a numeric counter as
\* it is and writes 0 over an absent or non-numeric one; it leaves the
\* snapshot as it is or writes a new one holding the counter's value.
C14_CheckKeepsUsage ==
  [][\A p \in Procs :
       (proc[p].op = "checkBudget" /\ Running(proc[p]) /\ proc'[p] # proc[p]) =>
         /\ (tok' = tok \/ (tok.type # "number" /\ tok' = Num(0)))
         /\ \/ cache' = cache
            \/ /\ tok'.type = "number"
               /\ cache' = [present |-> TRUE, value |-> tok'.v, age |-> 0]]_vars
\* A call of checkBudget has returned after creating the counter key and
\* writing the snapshot, both absent when it was called.
C14_Witness ==
  \E p \in Procs :
    /\ Done(p, "checkBudget")
    /\ proc[p].tokAt = TNull /\ ~proc[p].cacheAt.present
    /\ tok = Num(0) /\ cache.present /\ cache.value = 0
(* ------------------------------------------------------------------ *)
(* C15: the order of the gatekeeper's checks                           *)
(* ------------------------------------------------------------------ *)
\* The checks of each route in the order of its POST handler.
OrderOf(rt) ==
  IF rt = "profile"
  THEN <<"size", "rate", "origin", "ua", "honeypot", "input", "key", "preBudget">>
  ELSE <<"origin", "ua", "rate", "input", "honeypot", "preBudget">>
\* The checks a route performs before check x.
Before(rt, x) ==
  {OrderOf(rt)[i] : i \in {j \in 1..Len(OrderOf(rt)) :
                              \A k \in 1..j : OrderOf(rt)[k] # x}}
InOrder(rt, x) == \E i \in 1..Len(OrderOf(rt)) : OrderOf(rt)[i] = x
\* The client's rate records are as the request found them.
RecordsKept(r) ==
  rate[r.ip] = r.rateAt /\ ipWin[r.ip][WindowOf(now)] = r.winAt
\* The limiter of the request's route has counted the request.
RecordCounted(r) ==
  IF r.rt = "code"
  THEN rate[r.ip].count = r.rateAt.count + 1 /\ ipWin[r.ip][WindowOf(now)] = r.winAt
  ELSE rate[r.ip] = r.rateAt /\ ipWin[r.ip][WindowOf(now)] = r.winAt + 1

\* C15: the checks run in the order size, origin, user-agent, honeypot, input
\* validation, rate limiter, pre-flight budget and stop at the first failure:
\* a request rejected by one of the first five has not reached the rate
\* limiter and the client's rate record is as it was. In the code the limiter
\* runs second in glaze-profile and third in glaze-code.
C15_FirstFiveBeforeLimiter ==
  \A p \in Procs :
    (Done(p, "request")
       /\ proc[p].deniedAt \in {"size", "origin", "ua", "honeypot", "input"}) =>
      ("rate" \notin proc[p].passed /\ RecordsKept(proc[p]))
\* C15 as the code has it: each route stops at the first failing check of its
\* own order (glaze-profile: size, rate limiter, origin, user-agent, honeypot,
\* input, API key, budget; glaze-code: origin, user-agent, rate limiter,
\* input, honeypot, budget); a request rejected before the limiter leaves the
\* client's records as they were, one rejected after it has been counted
\* (unless glaze-profile runs in development, where the limiter counts nothing).
C15_RouteOrder ==
  \A p \in Procs :
    (Done(p, "request") /\ InOrder(proc[p].rt, proc[p].deniedAt)) =>
      /\ proc[p].passed = Before(proc[p].rt, proc[p].deniedAt)
      /\ IF "rate" \notin proc[p].passed
            \/ (proc[p].rt = "profile" /\ nodeEnv = "development")
         THEN RecordsKept(proc[p])
         ELSE RecordCounted(proc[p])
\* A request with a filled honeypot has been rejected after the limiter
\* counted it.
C15_Witness ==
  \E p \in Procs :
    /\ Done(p, "request") /\ proc[p].deniedAt = "honeypot"
    /\ "rate" \in proc[p].passed /\ ~RecordsKept(proc[p])
(* ------------------------------------------------------------------ *)
(* C16: the statuses of POST /glaze-profile                            *)
(* ------------------------------------------------------------------ *)
FailedProfile(p) ==
  Done(p, "request") /\ proc[p].rt = "profile" /\ proc[p].status # 200

RejectedAtDoor(p) ==
  Done(p, "request") /\ proc[p].deniedAt \in {"origin", "ua"}

\* C17: a request rejected by the origin check and one rejected by the
\* user-agent check receive identical responses, the same status and the same
\* message: the response to either rejection is the response the route gives
\* to the other one. In the code the two messages differ.
C17_SameResponse ==
  \A p \in Procs :
    RejectedAtDoor(p) =>
      /\ proc[p].status = 403
      /\ \A check \in {"origin", "ua"} : proc[p].error = ErrorOf(proc[p].rt, check)
\* C17 as the code has it: both rejections are answered 403 with a fixed
\* message that names the check at most, never the rule that failed (an empty,
\* a bot's or an unknown user-agent get the same answer), but the message of
\* the origin check differs from that of the user-agent check.
C17_SameStatusFixedMessage ==
  \A p \in Procs :
    RejectedAtDoor(p) =>
      /\ proc[p].status = 403
      /\ proc[p].respTokens = 0
      /\ proc[p].error =
           IF proc[p].deniedAt = "origin" THEN "Invalid request origin"
           ELSE IF proc[p].rt = "profile" THEN "Invalid request"
           ELSE "Invalid user agent"
\* A request with a bot's user-agent has been answered with a message other
\* than that of the origin check.
C17_Witness ==
  \E p \in Procs :
    /\ RejectedAtDoor(p) /\ proc[p].bad = "uaBot"
    /\ proc[p].error # ErrorOf(proc[p].rt, "origin")
(* ------------------------------------------------------------------ *)
(* C18: what reset-tokens resets                                       *)
(* ------------------------------------------------------------------ *)
\* C18: after POST /reset-tokens has succeeded, the counter of the counter
\* store is zero: the next getUsed returns 0 and the next checkBudget compares
\* against usage 0, whatever the counter and the snapshot held. The handler
\* writes 0 under 'global_tokens_used'; the counter store reads
\* 'global_tokens_used_v3' and its snapshot.
C18_ResetZeroesCounter ==
  \A p \in Procs :
    /\ (Done(p, "getUsed") /\ proc[p].afterReset) => proc[p].ret = 0
    /\ (Done(p, "checkBudget") /\ proc[p].afterReset) => proc[p].used = 0
    /\ (Done(p, "reset") /\ proc[p].status = 200) => TokNum = 0
\* What the handler does reset: its own key.
C18_ResetZeroesOwnKey ==
  \A p \in Procs :
    (Done(p, "reset") /\ proc[p].status = 200) => tokV1 = Num(0)
(* ------------------------------------------------------------------ *)
(* C19: the windows of the rate limiter                                *)
(* ------------------------------------------------------------------ *)
\* Only a call of client c, or the expiry of c's key, changes c's records.
OwnRecordsOnly ==
  \A c \in Clients :
    (rate'[c] # rate[c] \/ ipWin'[c] # ipWin[c]) =>
      \/ \E p \in Procs : proc[p].ip = c /\ proc'[p] # proc[p]
      \/ (rate'[c] = NoRate /\ ipWin'[c] = ipWin[c] /\ proc' = proc)

\* C19: counts are kept per client and epoch-aligned 24-hour window
\* floor(t / 24h): a client that was denied in window w is allowed on its
\* first request in window w + 1, and the requests of one client never change
\* the count of another. glaze-code keeps one record per client whose window
\* runs 24 hours from the request that opened it.
C19_EpochWindows ==
  /\ [](\A p \in Procs :
         (Done(p, "rateLimit") /\ proc[p].deniedPrev /\ proc[p].firstInWin) =>
           proc[p].allowed)
  /\ [][OwnRecordsOnly]_vars
\* C19 as the code has it: glaze-profile allows the first request of an epoch
\* window whatever happened in the window before; glaze-code allows the first
\* request a client makes more than 24 hours after its first one; in both, the
\* requests of one client never change the records of another.
C19_WindowsPerRoute ==
  /\ [](\A p \in Procs :
         Done(p, "rateLimit") =>
           IF route = "profile"
           THEN (proc[p].deniedPrev /\ proc[p].firstInWin) => proc[p].allowed
           ELSE proc[p].late => proc[p].allowed)
  /\ [][OwnRecordsOnly]_vars
\* A client denied in window 0 has been allowed on its first request in
\* window 1, the other client having made requests too.
C19_Witness ==
  \E p \in Procs :
    /\ Done(p, "rateLimit") /\ proc[p].deniedPrev /\ proc[p].firstInWin
    /\ proc[p].allowed
    /\ \E c \in Clients \ {proc[p].ip} : rlCalls[c] > 0
(* ------------------------------------------------------------------ *)
(* C20: what the verification after the write detects                  *)
(* ------------------------------------------------------------------ *)
\* Two calls of incrementGlobalTokensKV, the only operations so far, have
\* overlapped and both have returned after a single write, their first
\* attempt.
BothFirstAttempt ==
  /\ ops = 2
  /\ \A p \in Procs :
       /\ Done(p, "increment")
       /\ proc[p].outcome = "returned"
       /\ proc[p].writes = 1

\* C20: the verification after the write always detects a lost update: if
\* two concurrent increments both return on their first attempt, the stored
\* counter is the initial value plus both amounts. In the code a call that
\* writes and verifies before the other one writes sees its own value, and so
\* does the other.
C20_LostUpdateDetected == BothFirstAttempt => TokNum = sum
\* C20 as the code has it: if both return on their first attempt, each has
\* returned the initial value plus its own amount or plus both, and the
\* stored counter is the total one of them returned, so at most one of the
\* two amounts is missing.
C20_LastWriterWins ==
  BothFirstAttempt =>
    /\ \A p \in Procs : \E q \in Procs \ {p} :
         proc[p].ret \in {sum, sum - proc[q].amount}
    /\ \E p \in Procs : TokNum = proc[p].ret
\* Both calls have returned on their first attempt and one amount is missing
\* from the stored counter.
C20_Witness ==
  BothFirstAttempt /\ TokNum < sum /\ \A p \in Procs : proc[p].amount > 0
(* ------------------------------------------------------------------ *)
(* C21: the snapshot and the counter it mirrors                        *)
(* ------------------------------------------------------------------ *)
\* No call is in flight and a snapshot younger than its time-to-live is
\* stored.
QuietWithSnapshot ==
  (\A p \in AllProcs : ~Running(proc[p])) /\ CacheFresh(cache)

\* C21: whatever the interleaving of getUsed, increment and reconcile over a
\* fault-free store, once all calls have completed a snapshot that is present
\* and unexpired holds the value of the stored counter. In the code a call
\* writes the snapshot from a value it read before another call's write.
C21_SnapshotMirrorsCounter ==
  QuietWithSnapshot => tok = Num(cache.value)
\* C21 as the code has it: the same as long as no two calls have overlapped.
C21_SnapshotMirrorsCounterInTurn ==
  (QuietWithSnapshot /\ ~overlap) => tok = Num(cache.value)
\* Calls that took turns have ended with an increment, and the snapshot holds
\* the counter, which has grown.
C21_Witness ==
  /\ QuietWithSnapshot /\ ~overlap
  /\ ops = MaxOps
  /\ Done(1, "increment") /\ proc[1].amount > 0
  /\ tok = Num(cache.value) /\ cache.value = sum
(* ------------------------------------------------------------------ *)
(* C22: when getGlobalTokensUsed answers from the snapshot             *)
(* ------------------------------------------------------------------ *)
\* C22: getUsed returns the snapshot's value without reading the counter key
\* exactly when a snapshot is present and its age is strictly less than the
\* time-to-live of 5 seconds; with the snapshot absent or of age 5 seconds or
\* more it goes on to read the counter key. The step is that of the call's
\* kv.get(CACHE_KEY).
C22_CacheHitIffFresh ==
  [][\A p \in Procs :
       (proc[p].op = "getUsed" /\ proc[p].pc = "G_cache" /\ proc'[p] # proc[p]) =>
         IF cache.present /\ cache.age < 5 * 1000
         THEN /\ proc'[p].pc = "done" /\ proc'[p].outcome = "returned"
              /\ proc'[p].ret = cache.value /\ proc'[p].reads = 0
         ELSE proc'[p].pc = "G_tok"]_vars
\* A call has read the counter key because the snapshot it found was exactly
\* as old as the time-to-live.
C22_Witness ==
  \E p \in Procs :
    /\ proc[p].op = "getUsed" /\ proc[p].pc = "G_tok"
    /\ cache.present /\ cache.age = CACHE_TTL * 1000
(* ------------------------------------------------------------------ *)
(* C23: what backgroundReconciliation leaves behind                    *)
(* ------------------------------------------------------------------ *)
\* C23: when reconcile completes with no other operation interleaved, over a
\* fault-free store, a snapshot exists whose value is the stored counter; the
\* counter is the number it held when reconcile started, or 0 if it was
\* absent or not a number then. The step is the one that completes the call.
C23_ReconcileAligns ==
  [][\A p \in Procs :
       (proc[p].op = "reconcile" /\ proc[p].pc # "done" /\ proc'[p].pc = "done") =>
         /\ cache'.present /\ cache'.age = 0
         /\ tok' = Num(cache'.value)
         /\ tok' = IF proc[p].tokAt.type = "number" THEN proc[p].tokAt ELSE Num(0)]_vars
\* A reconcile that found a value that is not a number has reset the counter
\* and is about to complete.
C23_Witness ==
  \E p \in Procs :
    /\ proc[p].op = "reconcile" /\ proc[p].pc = "R_setc"
    /\ proc[p].tokAt = TBad /\ tok = Num(0)
(* ------------------------------------------------------------------ *)
(* C24, C25: increments over a store whose calls may throw             *)
(* ------------------------------------------------------------------ *)
\* The number a stored value counts for: an absent or non-numeric value is 0.
NumOf(t) == IF t.type = "number" THEN t.v ELSE 0

\* C24: with no concurrent writer, one increment(a) applies its amount at
\* most once: when the call returns or raises, the stored counter is no more
\* than V + a, where V is the value it held when the call started (never
\* V + 2a or more), whichever calls of the store have thrown in between.
C24_AppliedAtMostOnce ==
  [][\A p \in Procs :
       (proc[p].op = "increment" /\ proc[p].pc # "done" /\ proc'[p].pc = "done") =>
         NumOf(tok') <= NumOf(proc[p].tokAt) + proc[p].amount]_vars

\* C25: with no concurrent writer and a counter V > 0, increment(a) never
\* writes a total smaller than V + a.
C25_NeverWritesLess ==
  [][\A p \in Procs :
       ( /\ proc[p].op = "increment" /\ proc[p].pc = "I_write"
         /\ proc[p].tokAt.type = "number" /\ proc[p].tokAt.v > 0
         /\ proc'[p].pc = "I_verify" ) =>
         tok'.v >= proc[p].tokAt.v + proc[p].amount]_vars
(* ------------------------------------------------------------------ *)
(* C26: the reconciliation and the increment of one request            *)
(* ------------------------------------------------------------------ *)
\* The request is inside its call of incrementGlobalTokensKV.
InIncrement(r) ==
  /\ r.op = "request" /\ Running(r)
  /\ \/ r.pc \in {"I_write", "I_verify", "I_setc"}
     \/ (r.stack # <<>> /\ Head(r.stack) = "increment")

\* C26: within one admitted request the reconciliation is started only after
\* the request's increment has completed: the step that starts it belongs to a
\* request that has made its increment and is no longer inside it.
C26_ReconcileAfterIncrement ==
  [][\A p \in Procs :
       ( /\ proc[p].op = "request" /\ proc'[p] # proc[p]
         /\ ~Running(proc[Bg]) /\ Running(proc'[Bg]) ) =>
         (proc'[p].incr /\ ~InIncrement(proc'[p]) /\ proc[p].incr)]_vars
(* ------------------------------------------------------------------ *)
(* C27: the retry loops end                                            *)
(* ------------------------------------------------------------------ *)
\* The call is in an iteration of its retry loop that is one of the first 3:
\* every iteration that does not end the call counts at least one attempt, so
\* an iteration entered with fewer than 3 attempts counted is at most the 3rd.
WithinAttempts(r) ==
  /\ r.pc \in {"G_tok", "G_init", "G_verify", "G_setc"} => r.gAttempts < 3
  /\ (r.op = "increment" /\ Running(r)) => r.attempts < 3

\* C27: every getUsed eventually returns and every increment eventually
\* returns or raises, within 3 attempts of its own retry loop, whatever the
\* store does (fault-free, mismatching verification reads, throwing at will,
\* counter always absent, counter always non-numeric).
C27_CallsEnd ==
  /\ [](\A p \in Procs : WithinAttempts(proc[p]))
  /\ \A p \in Procs : (Running(proc[p]) ~> proc[p].pc = "done")
\* Over a store whose counter always reads as a non-number, the last
\* increment has raised.
C27_Witness ==
  /\ fault = "garbage" /\ ops = MaxLiveOps
  /\ Done(1, "increment") /\ proc[1].outcome = "raised"
C29_AbsentCounterCreated ==
  [][\A p \in Procs :
       (proc[p].op = "getUsed" /\ proc'[p] # proc[p]) =>
         /\ (proc[p].pc = "G_tok" /\ tok = [type |-> "null", v |-> 0]) =>
              (proc'[p].pc = "G_init" /\ tok' = tok)
         /\ proc[p].pc = "G_init" =>
              (proc'[p].pc = "G_verify" /\ tok' = [type |-> "number", v |-> 0])
         /\ proc[p].pc = "G_verify" =>
              (proc'[p].pc = "G_setc" /\ proc'[p].gVal = 0 /\ tok' = tok)
         /\ proc[p].pc = "G_setc" =>
              /\ proc'[p].pc = "done" /\ proc'[p].outcome = "returned"
              /\ proc'[p].ret = proc[p].gVal
              /\ cache'.present /\ cache'.value = proc[p].gVal /\ cache'.age = 0
              /\ tok' = tok]_vars
\* A getUsed that found the key absent has returned 0 after its two reads; the
\* counter and the new snapshot hold 0.
C29_Witness ==
  \E p \in Procs :
    /\ Done(p, "getUsed") /\ proc[p].reads = 2 /\ proc[p].ret = 0
    /\ ops = 1 /\ tok = Num(0)
    /\ cache.present /\ cache.value = 0 /\ cache.age = 0
C31_ReconcileFailsSilently ==
  /\ [](\A p \in AllProcs : proc[p].op = "reconcile" => proc[p].outcome # "raised")
  /\ [](\A p \in Procs :
          (Done(p, "request") /\ proc[p].incr) =>
            (proc[p].status = 200 /\ proc[p].error = ""
               /\ proc[p].respTokens = proc[p].amount))
  /\ [][(Running(proc[Bg]) /\ proc'[Bg] # proc[Bg]) =>
          \A p \in Procs : proc'[p] = proc[p]]_vars
\* A request has been answered 200 and the reconciliation it started has
\* ended in its catch block.
C31_Witness ==
  \E p \in Procs :
    /\ Done(p, "request") /\ proc[p].status = 200 /\ proc[p].incr
    /\ proc[Bg].pc = "done" /\ proc[Bg].threw /\ reqs = 1
(* ------------------------------------------------------------------ *)
(* C32: POST /reset-tokens that is refused                             *)
(* ------------------------------------------------------------------ *)
\* C32: a POST /reset-tokens with a missing or non-string secret is answered
\* 400, with no configured secret 500, with a secret other than the
\* configured one 401, and none of these writes to the store; the handler
\* writes only when the secret equals the configured value.
C32_RefusedResetWritesNothing ==
  [][\A p \in Procs :
       (proc'[p].op = "reset" /\ proc'[p] # proc[p]) =>
         /\ (proc'[p].secret \in {"missing", "nonString"}) =>
              (proc'[p].pc = "done" /\ proc'[p].status = 400)
         /\ (proc'[p].secret \in {"wrong", "right"} /\ ~proc'[p].configured) =>
              (proc'[p].pc = "done" /\ proc'[p].status = 500)
         /\ (proc'[p].secret = "wrong" /\ proc'[p].configured) =>
              (proc'[p].pc = "done" /\ proc'[p].status = 401)
         /\ (proc'[p].secret # "right" \/ ~proc'[p].configured) =>
              (tok' = tok /\ tokV1' = tokV1 /\ cache' = cache)
         /\ (tok' # tok \/ tokV1' # tokV1 \/ cache' # cache) =>
              (proc[p].pc = "T_set" /\ proc[p].secret = "right" /\ proc[p].configured)]_vars
\* A request with a wrong secret has been answered 401 over a counter that is
\* not zero, and the counter is as it was.
C32_Witness ==
  \E p \in Procs :
    /\ Done(p, "reset") /\ proc[p].secret = "wrong" /\ proc[p].configured
    /\ proc[p].status = 401 /\ ops = 1 /\ tok = Num(NearLimit)
(* ------------------------------------------------------------------ *)
(* C33: the range of a client's stored count                           *)
(* ------------------------------------------------------------------ *)
\* C33: under every interleaving of calls, a stored count of a client is
\* between 1 and the maximum of its route (4 for glaze-code; 8 for
\* glaze-profile, where no key counts as 0 here), and a call that denies has
\* written nothing: it ends at its read of the record, with the records as
\* they were.
C33_CountInRange ==
  /\ [](\A c \in Clients :
          /\ rate[c].present => (1 <= rate[c].count /\ rate[c].count <= 4)
          /\ \A w \in Windows : (0 <= ipWin[c][w] /\ ipWin[c][w] <= 8))
  /\ [][\A p \in Procs :
          ( /\ proc[p].op = "rateLimit" /\ proc[p].pc # "done"
            /\ proc'[p].pc = "done" /\ ~proc'[p].allowed ) =>
            /\ proc[p].pc \in {"L_get", "W_get"}
            /\ rate' = rate /\ ipWin' = ipWin]_vars
\* Calls have overlapped, a client's record of glaze-code stands at the maximum
\* and a call of that client has been denied.
C33_Witness ==
  \E p \in Procs :
    /\ overlap /\ route = "code"
    /\ Done(p, "rateLimit") /\ ~proc[p].allowed
    /\ rate[proc[p].ip].present /\ rate[proc[p].ip].count = maxRequestsCode
(* ------------------------------------------------------------------ *)
(* C34: the hours named by a denial of glaze-code                      *)
(* ------------------------------------------------------------------ *)
\* C34: a denial names ceil((resetTime - now) / 1 hour) hours; a denial that
\* follows a denial of the same client names no more hours than that one; and
\* an allowed call that increments the count leaves the record's resetTime as
\* it was.
C34_HoursEstimate ==
  /\ [][\A p \in Procs :
          ( /\ proc[p].op = "rateLimit" /\ proc[p].pc = "L_get"
            /\ proc'[p].pc = "done" /\ ~proc'[p].allowed ) =>
            LET left == rate[proc[p].ip].resetTime - now IN
            /\ proc'[p].hours * 3600000 >= left
            /\ (proc'[p].hours - 1) * 3600000 < left
            /\ proc'[p].prevHours >= 0 => proc'[p].hours <= proc'[p].prevHours]_vars
  /\ [][\A p \in Procs :
          ( /\ proc[p].op = "rateLimit" /\ proc[p].pc = "L_incr"
            /\ proc'[p].pc = "done" /\ rate[proc[p].ip].present ) =>
            /\ rate'[proc[p].ip].resetTime = rate[proc[p].ip].resetTime
            /\ rate'[proc[p].ip].count = rate[proc[p].ip].count + 1]_vars
\* A client denied once has been denied again later in the window, with fewer
\* hours named than before.
C34_Witness ==
  \E p \in Procs :
    /\ route = "code" /\ Done(p, "rateLimit") /\ ~proc[p].allowed
    /\ proc[p].prevHours > proc[p].hours /\ proc[p].hours > 0
(* ------------------------------------------------------------------ *)
(* C35: the pages of fetchUserSubmissions                              *)
(* ------------------------------------------------------------------ *)
\* C35: fetchUserSubmissions always ends; it makes at most
\* ceil(maxSubmissions / 1000) requests (5 for 5000); it stops at the first
\* batch that is empty, an error, or shorter than asked for; after each full
\* batch `from` advances by the count asked for; and it waits the delay
\* before every request but the first.
C35_PagesBounded ==
  /\ [](\A p \in Procs : proc[p].op = "fetch" =>
          /\ (proc[p].requests - 1) * 1000 < proc[p].cap
          /\ (proc[p].cap = 5000) => proc[p].requests <= 5
          /\ proc[p].pc = "F_fetch" => proc[p].delays = proc[p].requests
          /\ (proc[p].pc = "done" /\ proc[p].requests > 0) =>
               proc[p].delays = proc[p].requests - 1
          /\ proc[p].from = 1 + (proc[p].got - (proc[p].got % 1000))
               \/ (proc[p].pc = "done" /\ proc[p].from = 1 + proc[p].got))
  /\ [][\A p \in Procs :
          (proc[p].op = "fetch" /\ proc[p].pc = "F_fetch" /\ proc'[p] # proc[p]) =>
            IF proc'[p].got = proc[p].got + proc[p].count
            THEN /\ proc'[p].from = proc[p].from + proc[p].count
                 /\ proc'[p].pc \in {"F_wait", "done"}
                 /\ proc'[p].pc = "done" => proc'[p].got = proc[p].cap
            ELSE proc'[p].pc = "done" /\ proc'[p].requests = proc[p].requests + 1]_vars
  /\ \A p \in Procs : (proc[p].pc \in {"F_wait", "F_fetch"}) ~> (proc[p].pc = "done")
\* A call with the default cap has made five requests and four delays and
\* returned 5000 submissions.
C35_Witness ==
  \E p \in Procs :
    /\ Done(p, "fetch") /\ proc[p].cap = maxSubmissions
    /\ proc[p].requests = 5 /\ proc[p].delays = 4 /\ proc[p].ret = maxSubmissions
(* ------------------------------------------------------------------ *)
(* C36: one request in flight per page                                 *)
(* ------------------------------------------------------------------ *)
\* C36: a page instance never has two glaze requests in flight at the same
\* time: while a profile or code request awaits its response, no submit on
\* either tab issues another request.  Violated: the handlers test only the
\* 20 s gap, and each button only its own form's loading flag.
C36_OneRequestInFlight ==
  page.inflight["profile"] + page.inflight["code"] <= 1
(* ------------------------------------------------------------------ *)
(* C37: the origin check outside production                            *)
(* ------------------------------------------------------------------ *)
\* C37: in every mode other than production (any NODE_ENV different from
\* 'production', unset included) the origin/referer check accepts every
\* request whatever its Origin and Referer, on both routes.  Violated:
\* glaze-profile skips the check only when NODE_ENV is 'development'.
C37_OriginSkippedOutsideProduction ==
  \A p \in Procs :
    (Done(p, "request") /\ nodeEnv # "production") => proc[p].deniedAt # "origin"
====
